---- MODULE Spec2Model ----
(***************************************************************************)
(* Verification model of the yuzu Vulkan renderer caches:                  *)
(*   - VKTextureCache   (vk_texture_cache.cpp)                             *)
(*   - VKPipelineCache  (vk_pipeline_cache.cpp)                            *)
(*   - VKBufferCache    (vk_buffer_cache.cpp)                              *)
(* Each cache is driven by the single producer thread; every public        *)
(* operation is one atomic action.  Each cache has its own specification   *)
(* (SpecTex, SpecPipe, SpecBuf); the variables of the other caches stay    *)
(* at their initial values.                                                *)
(***************************************************************************)
EXTENDS Integers, Sequences, FiniteSets, TLC

VARIABLES
    \* ---- build configuration ----
    fatal_asserts,        \* TRUE: a failed ASSERT/UNIMPLEMENTED ends the process
    \* ---- VKTextureCache ----
    registered_surfaces,  \* std::vector<std::unique_ptr<CachedSurface>>
    tex_next_id,          \* identity of the next CachedSurface instance
    tex_trace,            \* calls made by the last texture-cache operation, in order
    tex_last,             \* the last texture-cache operation, its input and result
    tex_aborted,          \* the process was ended by a failed assertion
    tex_in_flight,        \* history: surfaces a submitted, unfinished command buffer reads
    tex_views,            \* history: the views GetView returned whose CachedView still exists
    \* ---- VKPipelineCache ----
    shader_cache,         \* RasterizerCache<Shader>: guest address -> CachedShader
    cache,                \* map from pipeline key to CacheEntry
    pipelines_built,      \* number of pipelines (and layouts) created so far
    pipe_served,          \* history: the calls answered from an entry still cached
    pipe_last,            \* the last pipeline-cache operation and its result
    \* ---- VKBufferCache ----
    buffer_ptr,           \* u8* buffer_ptr: host address of the write cursor
    buffer_offset,        \* u64 buffer_offset: stream-buffer offset of the write cursor
    buffer_offset_base,   \* u64 buffer_offset_base: offset the reservation starts at
    buffer_entries,       \* RasterizerCache<CachedBufferEntry>: guest address -> entry
    stream_offset,        \* VKStreamBuffer: offset the next reservation starts at
    fences,               \* VKStreamBuffer: the published ranges whose fence is unsignaled
    buf_mapped,           \* a reservation is open (between Reserve and Send)
    buf_uploads,          \* uploads made into the open reservation
    reserved_ptr,         \* history: the mapped pointer the last Reserve returned
    buf_high,             \* history: end of the highest range uploaded into the reservation
    buf_bytes,            \* history: sum of the sizes uploaded into the reservation
    buf_padding,          \* history: sum of the padding inserted into the reservation
    buf_stale,            \* history: addresses whose entry predates the last wrap
    buf_last,             \* the last buffer-cache operation, its input and result
    \* ---- CachedShader::DescriptorPool ----
    watches,              \* VKFencedPool: per resource index the fence watching it, 0 if none
    free_iterator,        \* VKFencedPool: index the search for a free resource starts at
    allocations,          \* std::vector<std::vector<UniqueDescriptorSet>>
    pool_in_use,          \* history: the sets handed out against a fence not yet signaled
    pool_last,            \* the last descriptor-pool operation and its result
    \* ---- VKBlitScreen ----
    raw_width,            \* u32 raw_width
    raw_height,           \* u32 raw_height
    raw_images,           \* std::vector<std::unique_ptr<VKImage>>, each named by its generation
    blit_watches,         \* std::vector<std::unique_ptr<VKFenceWatch>>: fence watched, 0 if none
    blit_next_fence,      \* the fence the scheduler hands to the next execution context
    blit_in_flight,       \* submissions the GPU has not finished, with the resources they use
    blit_last,            \* the last blit-screen operation and its result
    \* ---- SpirvModule / ControlFlowAnalyzer ----
    program_code,         \* const ProgramCode& program_code
    main_offset,          \* u32 main_offset
    cfa_last,             \* the last Decompile call and its result
    \* ---- EmuThread ----
    exec_step,            \* bool exec_step
    running,              \* bool running
    stop_run,             \* std::atomic_bool stop_run
    running_mutex,        \* std::mutex running_mutex: the thread holding it, "none" if free
    emu_pc,               \* position of the emulation thread
    gui_pc,               \* the call another thread is in, and its position
    \* ---- CachedSurface staging buffer and guest memory (byte contents) ----
    swz_guest,            \* guest memory of the surface, block-linear layout
    swz_vk_buffer,        \* vk_buffer: the host staging copy, pitch-linear
    swz_params,           \* params.is_tiled, params.block_height
    swz_last,             \* ghost: the last CachedSurface operation
    \* ---- CachedShader: entries and descriptor pool ----
    shader_entries,       \* entries: const buffers, attributes, samplers declared
    descriptor_pool,      \* descriptor_pool: created or null, and its pool sizes
    \* ---- VKBlitScreen: layout of the staging buffer ----
    stage_last,           \* the last raw image staged: configuration, offset, sizes
    \* ---- ControlFlowAnalyzer::ParallelExit over a run of parallel branches ----
    pexit_branches,       \* the exit methods of the branches merged so far
    pexit_acc,            \* the merged exit method
    pexit_last            \* the last ParallelExit call: arguments and results

texVars == <<fatal_asserts, registered_surfaces, tex_next_id, tex_trace, tex_last,
             tex_aborted, tex_in_flight, tex_views>>

pipeVars == <<shader_cache, cache, pipelines_built, pipe_served, pipe_last>>

bufVars == <<buffer_ptr, buffer_offset, buffer_offset_base, buffer_entries,
             stream_offset, fences, buf_mapped, buf_uploads, reserved_ptr, buf_high,
             buf_bytes, buf_padding, buf_stale, buf_last>>

poolVars == <<watches, free_iterator, allocations, pool_in_use, pool_last>>

blitVars == <<raw_width, raw_height, raw_images, blit_watches, blit_next_fence,
              blit_in_flight, blit_last>>

\* The components outside the four caches.
cfaVars == <<program_code, main_offset, cfa_last>>

emuVars == <<exec_step, running, stop_run, running_mutex, emu_pc, gui_pc>>

swzVars == <<swz_guest, swz_vk_buffer, swz_params, swz_last>>

descVars == <<shader_entries, descriptor_pool>>

stageVars == <<stage_last>>

pexitVars == <<pexit_branches, pexit_acc, pexit_last>>

moreVars == <<swzVars, descVars, stageVars, pexitVars>>

extVars == <<blitVars, cfaVars, emuVars, moreVars>>

vars == <<texVars, pipeVars, bufVars, poolVars, extVars>>

\* ------------------------------------------------------------------------
\* Bounds of the model
\* ------------------------------------------------------------------------
\* End of the guest memory region backing every surface (GetRegionEnd).
GuestRegionEnd == 2
\* Number of CachedSurface instances created in one behaviour.
MaxSurfaces == 3

\* Number of pipelines created in one behaviour.
MaxPipelines == 2

\* Surface widths and heights in pixels (one byte per pixel).
Dims == {1, 2}

\* ------------------------------------------------------------------------
\* VKTextureCache
\* ------------------------------------------------------------------------
\* SurfaceParams as far as the cache looks at them: address and shape.
SurfaceParamsSet ==
    [addr : 0 .. (GuestRegionEnd - 1), width : Dims, height : Dims]

\* SurfaceParams::GetSizeInBytes: guest-layout size of the image.
GetSizeInBytes(params) == params.width * params.height

\* CachedSurface::CachedSurface: cached_size_in_bytes is params.size_in_bytes
\* clamped to the end of the backing region.
NewSurface(id, params) ==
    LET max_size == GuestRegionEnd - params.addr
        size == GetSizeInBytes(params)
    IN [id |-> id, addr |-> params.addr, width |-> params.width,
        height |-> params.height,
        cached_size_in_bytes |-> IF size > max_size THEN max_size ELSE size,
        clamped |-> size > max_size,
        modified |-> FALSE]

\* CachedSurface::IsOverlap: the byte ranges intersect.
IsOverlap(surface, addr, size) ==
    /\ surface.addr < addr + size
    /\ addr < surface.addr + surface.cached_size_in_bytes

\* CachedSurface::IsFamiliar: the surface has exactly the requested shape.
IsFamiliar(surface, params) ==
    /\ surface.addr = params.addr
    /\ surface.width = params.width
    /\ surface.height = params.height

\* CachedSurface::TryGetView: layer and level are always zero, the view is the
\* superset view of the surface (named by the surface's identity).
TryGetView(surface, params) == surface.id

\* CachedSurface::FlushVKBuffer: UNIMPLEMENTED(); nothing is written back.
FlushVKBuffer(surface, trace, fatal) ==
    [trace |-> Append(trace, <<"unimplemented", surface.id>>), aborted |-> fatal]

\* CachedSurface::Flush: a modified surface is written back through FlushVKBuffer.
Flush(surface, trace, fatal) ==
    LET called == Append(trace, <<"flush", surface.id>>)
    IN IF surface.modified
       THEN FlushVKBuffer(surface, called, fatal)
       ELSE [trace |-> called, aborted |-> FALSE]

\* Mutant: only the first byte of the requested region is tested for overlap.
GetOverlappingSurfaces_FirstByte(regs, params) ==
    SelectSeq(regs, LAMBDA s : IsOverlap(s, params.addr, 1))

\* VKTextureCache::GetOverlappingSurfaces
GetOverlappingSurfaces(regs, params) ==
    SelectSeq(regs, LAMBDA s : IsOverlap(s, params.addr, GetSizeInBytes(params)))

\* VKTextureCache::Register
Register(regs, surface, trace) ==
    [regs |-> Append(regs, surface),
     trace |-> trace \o << <<"pages", surface.id, 1>>, <<"register", surface.id>> >>]

\* VKTextureCache::Unregister: UpdatePagesCachedCount(-1), find_if,
\* ASSERT(it == registered_surfaces.end()), erase(it).
Unregister(regs, surface, trace, fatal) ==
    LET counted == Append(trace, <<"pages", surface.id, -1>>)
        found == \E i \in 1 .. Len(regs) : regs[i].id = surface.id
    IN IF found
       THEN IF fatal
            THEN [regs |-> regs, aborted |-> TRUE,
                  trace |-> Append(counted, <<"assert", surface.id>>)]
            ELSE [regs |-> SelectSeq(regs, LAMBDA s : s.id # surface.id),
                  aborted |-> FALSE,
                  trace |-> counted \o << <<"assert", surface.id>>,
                                          <<"erase", surface.id>> >>]
       ELSE [regs |-> regs, aborted |-> FALSE, trace |-> counted]

\* CachedSurface::LoadVKBuffer: the whole image is read from guest memory at
\* params.addr (memcpy of params.size_in_bytes_vk bytes, or MortonSwizzle over
\* params.width x params.height); cached_size_in_bytes is not consulted.
LoadVKBuffer(surface, trace) ==
    Append(trace, <<"read", surface.id, surface.addr,
                    GetSizeInBytes([width |-> surface.width, height |-> surface.height])>>)

\* VKTextureCache::LoadSurface: LoadVKBuffer, UploadVKTexture, MarkAsModified(false)
LoadSurface(surface, trace) ==
    [surface |-> [surface EXCEPT !.modified = FALSE],
     trace |-> Append(LoadVKBuffer(surface, trace), <<"load", surface.id>>)]

\* Mutant: the new surface is not registered; it is destroyed when LoadView returns.
LoadView_NotRegistered(regs, params, preserve_contents, id, trace) ==
    [regs |-> regs, trace |-> Append(trace, <<"create", id>>), view |-> id,
     aborted |-> FALSE, created |-> TRUE]

\* Mutant: the new surface is loaded whether or not preserve_contents is set.
LoadView_AlwaysLoads(regs, params, preserve_contents, id, trace) ==
    LET made == NewSurface(id, params)
        loaded == LoadSurface(made, Append(trace, <<"create", id>>))
        reg == Register(regs, loaded.surface, loaded.trace)
    IN [regs |-> reg.regs, trace |-> reg.trace, view |-> id, aborted |-> FALSE,
        created |-> TRUE]

\* VKTextureCache::LoadView
LoadView(regs, params, preserve_contents, id, trace) ==
    LET made == NewSurface(id, params)
        created == Append(trace, <<"create", id>>)
        loaded == IF preserve_contents
                  THEN LoadSurface(made, created)
                  ELSE [surface |-> made, trace |-> created]
        reg == Register(regs, loaded.surface, loaded.trace)
    IN [regs |-> reg.regs, trace |-> reg.trace, view |-> id, aborted |-> FALSE,
        created |-> TRUE]

\* Mutant: the overlaps are unregistered without being flushed first.
RECURSIVE EvictOverlaps_NoFlush(_, _, _, _)
EvictOverlaps_NoFlush(overlaps, regs, trace, fatal) ==
    IF overlaps = <<>>
    THEN [regs |-> regs, trace |-> trace, aborted |-> FALSE]
    ELSE LET u == Unregister(regs, Head(overlaps), trace, fatal)
         IN IF u.aborted
            THEN u
            ELSE EvictOverlaps_NoFlush(Tail(overlaps), u.regs, u.trace, fatal)

\* The loop of VKTextureCache::GetView over the overlaps: Flush, then Unregister.
RECURSIVE EvictOverlaps(_, _, _, _)
EvictOverlaps(overlaps, regs, trace, fatal) ==
    IF overlaps = <<>>
    THEN [regs |-> regs, trace |-> trace, aborted |-> FALSE]
    ELSE LET overlap == Head(overlaps)
             f == Flush(overlap, trace, fatal)
         IN IF f.aborted
            THEN [regs |-> regs, trace |-> f.trace, aborted |-> TRUE]
            ELSE LET u == Unregister(regs, overlap, f.trace, fatal)
                 IN IF u.aborted
                    THEN u
                    ELSE EvictOverlaps(Tail(overlaps), u.regs, u.trace, fatal)

\* Mutant: the familiar overlap is not reused, the surface is always recreated.
GetView_AlwaysRecreate(regs, params, preserve_contents, id, fatal) ==
    LET overlaps == GetOverlappingSurfaces(regs, params)
        e == EvictOverlaps(overlaps, regs, <<>>, fatal)
    IN IF e.aborted
       THEN [regs |-> e.regs, trace |-> e.trace, view |-> 0,
             aborted |-> TRUE, created |-> FALSE]
       ELSE LoadView(e.regs, params, preserve_contents, id, e.trace)

\* VKTextureCache::GetView
GetView(regs, params, preserve_contents, id, fatal) ==
    LET overlaps == GetOverlappingSurfaces(regs, params)
    IN IF overlaps = <<>>
       THEN LoadView(regs, params, preserve_contents, id, <<>>)
       ELSE IF Len(overlaps) = 1 /\ IsFamiliar(overlaps[1], params)
            THEN [regs |-> regs, trace |-> <<>>,
                  view |-> TryGetView(overlaps[1], params),
                  aborted |-> FALSE, created |-> FALSE]
            ELSE LET e == EvictOverlaps(overlaps, regs, <<>>, fatal)
                 IN IF e.aborted
                    THEN [regs |-> e.regs, trace |-> e.trace, view |-> 0,
                          aborted |-> TRUE, created |-> FALSE]
                    ELSE LoadView(e.regs, params, preserve_contents, id, e.trace)

\* Mutant: std::remove_if replaced by a removal of the first overlap only.
InvalidateRegion_FirstOnly(regs, addr, size) ==
    LET hit == {i \in 1 .. Len(regs) : IsOverlap(regs[i], addr, size)}
        first == IF hit = {} THEN 0 ELSE CHOOSE i \in hit : \A j \in hit : i <= j
    IN [regs |-> [k \in 1 .. (Len(regs) - (IF first = 0 THEN 0 ELSE 1)) |->
                     IF first = 0 \/ k < first THEN regs[k] ELSE regs[k + 1]],
        trace |-> <<>>]

\* VKTextureCache::InvalidateRegion: erase(remove_if(IsOverlap))
InvalidateRegion(regs, addr, size) ==
    [regs |-> SelectSeq(regs, LAMBDA s : ~IsOverlap(s, addr, size)),
     trace |-> <<>>]

\* CachedSurface owns its CachedView (superset_view is a unique_ptr member):
\* the views of the surfaces no longer in regs were destroyed with them.
DestroyViews(views, regs) == {v \in views : \E i \in 1 .. Len(regs) : regs[i].id = v}

\* --- actions ---
\* GetTextureSurface / GetColorBufferSurface / GetDepthBufferSurface -> GetView
TexGetView(params, preserve_contents) ==
    /\ ~tex_aborted
    /\ tex_next_id <= MaxSurfaces
    /\ LET r == GetView(registered_surfaces, params, preserve_contents, tex_next_id,
                        fatal_asserts)
       IN /\ registered_surfaces' = r.regs
          /\ tex_trace' = r.trace
          /\ tex_aborted' = r.aborted
          /\ tex_next_id' = IF r.created THEN tex_next_id + 1 ELSE tex_next_id
          /\ tex_last' = [op |-> "GetView", params |-> params,
                          preserve |-> preserve_contents, view |-> r.view]
          /\ tex_views' = IF r.aborted
                          THEN tex_views
                          ELSE DestroyViews(tex_views, r.regs) \cup {r.view}
    /\ UNCHANGED <<fatal_asserts, tex_in_flight, pipeVars, bufVars, poolVars, extVars>>

TexInvalidateRegion(addr, size) ==
    /\ ~tex_aborted
    /\ LET r == InvalidateRegion(registered_surfaces, addr, size)
       IN /\ registered_surfaces' = r.regs
          /\ tex_trace' = r.trace
          /\ tex_last' = [op |-> "InvalidateRegion", addr |-> addr, size |-> size,
                          removed |-> Len(registered_surfaces) - Len(r.regs)]
          /\ tex_views' = DestroyViews(tex_views, r.regs)
    /\ UNCHANGED <<fatal_asserts, tex_next_id, tex_aborted, tex_in_flight, pipeVars, bufVars,
                   poolVars, extVars>>

\* The rasterizer marks a render target it drew to as modified.
TexMarkAsModified(i) ==
    /\ ~tex_aborted
    /\ i \in 1 .. Len(registered_surfaces)
    /\ ~registered_surfaces[i].modified
    /\ registered_surfaces' = [registered_surfaces EXCEPT ![i].modified = TRUE]
    /\ tex_trace' = <<>>
    /\ tex_last' = [op |-> "MarkAsModified", id |-> registered_surfaces[i].id]
    /\ UNCHANGED <<fatal_asserts, tex_next_id, tex_aborted, tex_in_flight, tex_views,
                   pipeVars, bufVars, poolVars, extVars>>

\* The command buffer holding a draw that samples the image of registered
\* surface i is submitted; its fence is not signaled yet.
TexSubmitRead(i) ==
    /\ ~tex_aborted
    /\ i \in 1 .. Len(registered_surfaces)
    /\ registered_surfaces[i].id \notin tex_in_flight
    /\ tex_in_flight' = tex_in_flight \cup {registered_surfaces[i].id}
    /\ tex_trace' = <<>>
    /\ tex_last' = [op |-> "SubmitRead", id |-> registered_surfaces[i].id]
    /\ UNCHANGED <<fatal_asserts, registered_surfaces, tex_next_id, tex_aborted, tex_views,
                   pipeVars, bufVars, poolVars, extVars>>

\* The fence of the submitted command buffers is signaled: no read is outstanding.
TexFenceSignaled ==
    /\ ~tex_aborted
    /\ tex_in_flight # {}
    /\ tex_in_flight' = {}
    /\ tex_trace' = <<>>
    /\ tex_last' = [op |-> "FenceSignaled"]
    /\ UNCHANGED <<fatal_asserts, registered_surfaces, tex_next_id, tex_aborted, tex_views,
                   pipeVars, bufVars, poolVars, extVars>>

TexInitState ==
    /\ tex_in_flight = {}
    /\ tex_views = {}
    /\ registered_surfaces = <<>>
    /\ tex_next_id = 1
    /\ tex_trace = <<>>
    /\ tex_last = [op |-> "none"]
    /\ tex_aborted = FALSE

\* ------------------------------------------------------------------------
\* VKPipelineCache
\* ------------------------------------------------------------------------
\* Maxwell::MaxShaderProgram and the program indices.
MaxShaderProgram == 6
VertexA == 0
VertexB == 1
Fragment == 5
Programs == 0 .. (MaxShaderProgram - 1)

\* Guest addresses holding shader code.
ShaderAddrs == {1, 2}
NoShader == [addr |-> 0]
\* The (RenderPassParams, PipelineParams) values the draws come with: a base
\* state, one differing from it in the render pass only, one in the
\* fixed-function state only.
RenderStates == {<<"rp1", "pp1">>, <<"rp2", "pp1">>, <<"rp1", "pp2">>}

\* The engine registers GetPipeline reads: per program its enable flag and the
\* guest address of its code.  VertexB is always enabled; the programs
\* CachedShader cannot compile (tessellation, geometry) are disabled.  VertexA
\* code, when enabled, is at address 1, Fragment code at address 2, VertexB
\* code at either.  The draws: VertexA off or on with VertexB at either address
\* and no fragment shader, and one draw with VertexB and a fragment shader.
MakeRegs(a, b, f) ==
    LET code == [p \in Programs |->
                    IF p = VertexA THEN a
                    ELSE IF p = VertexB THEN b
                    ELSE IF p = Fragment THEN f ELSE 0]
    IN [enabled |-> [p \in Programs |-> code[p] # 0], code |-> code]
RegsSet ==
    {MakeRegs(a, b, 0) : a \in {0, 1}, b \in ShaderAddrs}
        \cup {MakeRegs(0, 1, 2), MakeRegs(1, 1, 2)}

\* Maxwell3D::Regs::IsShaderConfigEnabled
IsShaderConfigEnabled(regs, index) == regs.enabled[index]

\* GetShaderAddress
GetShaderAddress(regs, program) == regs.code[program]

\* GetStageFromProgram
GetStageFromProgram(program) == IF program = 0 THEN 0 ELSE program - 1

\* CachedShader::CachedShader: the code at addr is compiled for program_type;
\* VertexA also reads the code VertexB currently points at and fuses it in.
CachedShader(regs, addr, program_type) ==
    [addr |-> addr, program_type |-> program_type,
     program_b |-> IF program_type = VertexA
                   THEN GetShaderAddress(regs, VertexB) ELSE 0]

\* RasterizerCache::TryGet: the object registered at addr, if any.
TryGet(sc, addr) == sc[addr]

\* RasterizerCache::Register
RegisterShader(sc, shader) == [sc EXCEPT ![shader.addr] = shader]

\* Mutant: the iteration of VertexB is not skipped after VertexA.
RECURSIVE ResolveShaders_NoSkip(_, _, _, _, _)
ResolveShaders_NoSkip(index, regs, shaders, stages, sc) ==
    IF index >= MaxShaderProgram
    THEN [shaders |-> shaders, stages |-> stages, sc |-> sc, writes |-> <<>>]
    ELSE IF ~IsShaderConfigEnabled(regs, index)
         THEN ResolveShaders_NoSkip(index + 1, regs, shaders, stages, sc)
         ELSE LET program_addr == GetShaderAddress(regs, index)
                  found == TryGet(sc, program_addr)
                  shader == IF found # NoShader
                            THEN found
                            ELSE CachedShader(regs, program_addr, index)
                  sc2 == IF found # NoShader THEN sc ELSE RegisterShader(sc, shader)
                  stage == IF index = 0 THEN 0 ELSE index - 1
                  rest == ResolveShaders_NoSkip(index + 1, regs,
                                                [shaders EXCEPT ![index] = program_addr],
                                                [stages EXCEPT ![stage] = shader], sc2)
              IN [rest EXCEPT !.writes = << <<index, stage>> >> \o @]

\* The loop of GetPipeline over the shader programs. writes lists, in order,
\* the assignments pipeline.shaders[stage] = shader as <<index, stage>>.
RECURSIVE ResolveShaders(_, _, _, _, _)
ResolveShaders(index, regs, shaders, stages, sc) ==
    IF index >= MaxShaderProgram
    THEN [shaders |-> shaders, stages |-> stages, sc |-> sc, writes |-> <<>>]
    ELSE IF ~IsShaderConfigEnabled(regs, index)
         THEN ResolveShaders(index + 1, regs, shaders, stages, sc)
         ELSE LET program_addr == GetShaderAddress(regs, index)
                  found == TryGet(sc, program_addr)
                  shader == IF found # NoShader
                            THEN found
                            ELSE CachedShader(regs, program_addr, index)
                  sc2 == IF found # NoShader THEN sc ELSE RegisterShader(sc, shader)
                  stage == IF index = 0 THEN 0 ELSE index - 1
                  \* VertexB was combined with VertexA: its iteration is skipped
                  next == IF index = VertexA THEN index + 2 ELSE index + 1
                  rest == ResolveShaders(next, regs, [shaders EXCEPT ![index] = program_addr],
                                         [stages EXCEPT ![stage] = shader], sc2)
              IN [rest EXCEPT !.writes = << <<index, stage>> >> \o @]

\* Mutant: the fixed-function state is left out of the key.
PipelineKey_NoParams(shaders, renderpass_params, params) ==
    [shaders |-> shaders, renderpass_params |-> renderpass_params, params |-> "pp1"]

\* The key of cache.try_emplace({shaders, renderpass_params, params}).
PipelineKey(shaders, renderpass_params, params) ==
    [shaders |-> shaders, renderpass_params |-> renderpass_params, params |-> params]

\* Mutant: try_emplace replaced by an unconditional insertion of a new entry.
GetPipeline_AlwaysBuild(regs, renderpass_params, params, sc, entries, built) ==
    LET r == ResolveShaders(0, regs, [p \in Programs |-> 0],
                            [s \in 0 .. (MaxShaderProgram - 2) |-> NoShader], sc)
        key == PipelineKey(r.shaders, renderpass_params, params)
        entry == [key |-> key, pipeline |-> built + 1, layout |-> built + 1]
    IN [sc |-> r.sc,
        cache |-> {e \in entries : e.key # key} \cup {entry},
        built |-> built + 1,
        pipeline |-> [handle |-> entry.pipeline, layout |-> entry.layout,
                      shaders |-> r.stages],
        key |-> key,
        writes |-> r.writes,
        is_cache_miss |-> TRUE]

\* VKPipelineCache::GetPipeline
GetPipeline(regs, renderpass_params, params, sc, entries, built) ==
    LET r == ResolveShaders(0, regs, [p \in Programs |-> 0],
                            [s \in 0 .. (MaxShaderProgram - 2) |-> NoShader], sc)
        key == PipelineKey(r.shaders, renderpass_params, params)
        is_cache_miss == \A e \in entries : e.key # key
        entry == IF is_cache_miss
                 THEN [key |-> key, pipeline |-> built + 1, layout |-> built + 1]
                 ELSE CHOOSE e \in entries : e.key = key
    IN [sc |-> r.sc,
        cache |-> entries \cup {entry},
        built |-> IF is_cache_miss THEN built + 1 ELSE built,
        pipeline |-> [handle |-> entry.pipeline, layout |-> entry.layout,
                      shaders |-> r.stages],
        key |-> key,
        writes |-> r.writes,
        is_cache_miss |-> is_cache_miss]

\* Mutant: only the first shader address of the key is compared.
ObjectInvalidated_FirstSlot(entries, invalidated_addr) ==
    {e \in entries : e.key.shaders[0] # invalidated_addr}

\* Mutant: no entry is erased.
ObjectInvalidated_ErasesNothing(entries, invalidated_addr) == entries

\* VKPipelineCache::ObjectInvalidated
ObjectInvalidated(entries, invalidated_addr) ==
    {e \in entries : \A p \in Programs : e.key.shaders[p] # invalidated_addr}

\* --- actions ---
PipeGetPipeline(regs, renderpass_params, params) ==
    LET r == GetPipeline(regs, renderpass_params, params, shader_cache, cache,
                         pipelines_built)
    IN /\ r.built <= MaxPipelines
       /\ shader_cache' = r.sc
       /\ cache' = r.cache
       /\ pipelines_built' = r.built
       /\ pipe_served' = pipe_served \cup
              {[regs |-> regs, renderpass_params |-> renderpass_params,
                params |-> params, pipeline |-> r.pipeline]}
       /\ pipe_last' = [op |-> "GetPipeline", regs |-> regs,
                        renderpass_params |-> renderpass_params, params |-> params,
                        pipeline |-> r.pipeline, writes |-> r.writes,
                        is_cache_miss |-> r.is_cache_miss,
                        repeated |-> \E c \in pipe_served :
                                        /\ c.regs = regs
                                        /\ c.renderpass_params = renderpass_params
                                        /\ c.params = params]
       /\ UNCHANGED <<texVars, bufVars, poolVars, extVars>>

\* A guest write to addr: the rasterizer cache unregisters the shader
\* registered there and reports it through ObjectInvalidated.
PipeInvalidateRegion(addr) ==
    /\ shader_cache[addr] # NoShader
    /\ shader_cache' = [shader_cache EXCEPT ![addr] = NoShader]
    /\ cache' = ObjectInvalidated(cache, shader_cache[addr].addr)
    /\ pipe_served' = {c \in pipe_served :
                          \E e \in cache' : e.pipeline = c.pipeline.handle}
    /\ pipe_last' = [op |-> "ObjectInvalidated", addr |-> addr,
                     removed |-> Cardinality(cache) - Cardinality(cache')]
    /\ UNCHANGED <<pipelines_built, texVars, bufVars, poolVars, extVars>>

\* A guest write to addr where no shader is registered: the rasterizer cache
\* finds no object, ObjectInvalidated is not called.
PipeInvalidateRegionNoObject(addr) ==
    /\ shader_cache[addr] = NoShader
    /\ pipe_last' = [op |-> "InvalidateRegion", addr |-> addr, removed |-> 0]
    /\ UNCHANGED <<shader_cache, cache, pipelines_built, pipe_served,
                   texVars, bufVars, poolVars, extVars>>

PipeInitState ==
    /\ shader_cache = [a \in ShaderAddrs |-> NoShader]
    /\ cache = {}
    /\ pipelines_built = 0
    /\ pipe_served = {}
    /\ pipe_last = [op |-> "none"]

\* ------------------------------------------------------------------------
\* VKBufferCache (vk_buffer_cache.cpp) over VKStreamBuffer
\* ------------------------------------------------------------------------
\* Size of the stream buffer the cache is constructed with.
BufferSize == 4096
\* Uploads made into one reservation.
MaxUploads == 2
\* Host address the stream buffer is mapped at; not a multiple of an alignment.
MappedBase == 1000
\* Smallest upload UploadMemory enters into the cache.
CacheThreshold == 2048
UploadSizes == {1024, 2048, 3072}
Alignments == {1, 2048}
ReserveSizes == {2048, 4096}
GuestBufAddrs == {1}
NoEntry == [size |-> 0]

\* Common::AlignUp
AlignUp(value, size) == value + ((size - (value % size)) % size)

\* Two half-open ranges <<begin, end>> have a byte in common.
Overlaps(r1, r2) == r1[1] < r2[2] /\ r2[1] < r1[2]

\* VKStreamBuffer::Reserve: contiguous space for size bytes at the cursor.  A
\* request that would run past the end of the buffer restarts at offset 0 and
\* reports the invalidation; the fences protecting the space handed out are
\* waited on.
StreamReserve(offset, live, size) ==
    LET wraps == offset + size > BufferSize
        at == IF wraps THEN 0 ELSE offset
        waited == {f \in live : Overlaps(f.watch, <<at, at + size>>)}
    IN [ptr |-> MappedBase + at, offset |-> at, invalidate |-> wraps,
        fences |-> live \ waited, waited |-> waited]

\* VKStreamBuffer::Send: the size bytes at the cursor are attached to the fence
\* of the submission and the cursor moves past them.  written is the range the
\* producer has filled for that submission.
StreamSend(offset, live, size, written) ==
    [offset |-> offset + size,
     fences |-> live \cup {[watch |-> <<offset, offset + size>>, written |-> written]}]

\* RasterizerCache::InvalidateAll
InvalidateAll == [a \in GuestBufAddrs |-> NoEntry]

\* Mutant: the entries are kept when the stream buffer reports an invalidation.
Reserve_KeepsEntries(max_size, s_offset, live, entries) ==
    LET r == StreamReserve(s_offset, live, max_size)
    IN [buffer_ptr |-> r.ptr, buffer_offset_base |-> r.offset,
        buffer_offset |-> r.offset, entries |-> entries, stream |-> r]

\* VKBufferCache::Reserve
Reserve(max_size, s_offset, live, entries) ==
    LET r == StreamReserve(s_offset, live, max_size)
    IN [buffer_ptr |-> r.ptr, buffer_offset_base |-> r.offset,
        buffer_offset |-> r.offset,
        entries |-> IF r.invalidate THEN InvalidateAll ELSE entries,
        stream |-> r]

\* Mutant: nothing is published.
Send_PublishesNothing(offset, base, s_offset, live) ==
    StreamSend(s_offset, live, 0, <<base, offset>>)

\* Mutant: the cursor is published, not its distance from the base.
Send_PublishesCursor(offset, base, s_offset, live) ==
    StreamSend(s_offset, live, offset, <<base, offset>>)

\* Mutant: half of the consumed bytes are published.
Send_PublishesHalf(offset, base, s_offset, live) ==
    StreamSend(s_offset, live, (offset - base) \div 2, <<base, offset>>)

\* VKBufferCache::Send
Send(offset, base, s_offset, live) ==
    StreamSend(s_offset, live, offset - base, <<base, offset>>)

\* Mutant: the mapped pointer is aligned and the offset follows it.
AlignBuffer_AlignsPointer(ptr, offset, alignment) ==
    LET ptr_aligned == AlignUp(ptr, alignment)
    IN [buffer_ptr |-> ptr_aligned, buffer_offset |-> offset + (ptr_aligned - ptr)]

\* VKBufferCache::AlignBuffer
AlignBuffer(ptr, offset, alignment) ==
    LET offset_aligned == AlignUp(offset, alignment)
    IN [buffer_ptr |-> ptr + (offset_aligned - offset), buffer_offset |-> offset_aligned]

\* --- actions ---
\* Mutant: the cursor is aligned but not moved past the content.
BufAdvance_KeepsCursor(alignment, size) ==
    LET a == AlignBuffer(buffer_ptr, buffer_offset, alignment)
    IN /\ buffer_ptr' = a.buffer_ptr
       /\ buffer_offset' = a.buffer_offset

\* The cursor after size bytes have been placed at the next aligned offset.
BufAdvance(alignment, size) ==
    LET a == AlignBuffer(buffer_ptr, buffer_offset, alignment)
    IN /\ buffer_ptr' = a.buffer_ptr + size
       /\ buffer_offset' = a.buffer_offset + size

\* The record of an upload: where the content went and what was reported.
BufUploaded(op, alignment, size, hit, offset, ptr) ==
    [op |-> op, alignment |-> alignment, size |-> size, hit |-> hit,
     cursor |-> buffer_offset, offset |-> offset, ptr |-> ptr]

\* The upload u is entered into the history of the open reservation.
BufAccount(u) ==
    IF u.hit
    THEN UNCHANGED <<buf_high, buf_bytes, buf_padding>>
    ELSE /\ buf_high' = IF u.offset + u.size > buf_high
                        THEN u.offset + u.size ELSE buf_high
         /\ buf_bytes' = buf_bytes + u.size
         /\ buf_padding' = buf_padding + (u.offset - u.cursor)

BufReserve(max_size) ==
    LET r == Reserve(max_size, stream_offset, fences, buffer_entries)
    IN /\ ~buf_mapped
       /\ buffer_ptr' = r.buffer_ptr
       /\ buffer_offset_base' = r.buffer_offset_base
       /\ buffer_offset' = r.buffer_offset
       /\ buffer_entries' = r.entries
       /\ stream_offset' = r.stream.offset
       /\ fences' = r.stream.fences
       /\ buf_mapped' = TRUE
       /\ buf_uploads' = 0
       /\ reserved_ptr' = r.stream.ptr
       /\ buf_high' = r.stream.offset
       /\ buf_bytes' = 0
       /\ buf_padding' = 0
       /\ buf_stale' = IF r.stream.invalidate
                       THEN {a \in GuestBufAddrs : r.entries[a] # NoEntry}
                       ELSE buf_stale
       /\ buf_last' = [op |-> "Reserve", size |-> max_size,
                        invalidate |-> r.stream.invalidate,
                        waited |-> r.stream.waited # {},
                        dropped |-> Cardinality({a \in GuestBufAddrs :
                                       buffer_entries[a] # NoEntry
                                           /\ r.entries[a] = NoEntry})]
       /\ UNCHANGED <<texVars, pipeVars, poolVars, extVars>>

\* Mutant: the alignment of the entry is not compared.
IsCacheHit_IgnoresAlignment(entry, size, alignment) == entry.size >= size

\* UploadMemory: the registered entry answers the request.
IsCacheHit(entry, size, alignment) ==
    entry.size >= size /\ entry.alignment = alignment

UseCache_IgnoresSize(cache_arg, size) == cache_arg

\* UploadMemory: cache &= size >= 2048
UseCache(cache_arg, size) == cache_arg /\ size >= CacheThreshold

BufUploadMemory(gpu_addr, size, alignment, cache_arg) ==
    LET use_cache == UseCache(cache_arg, size)
        entry == buffer_entries[gpu_addr]
        found == use_cache /\ entry # NoEntry
        hit == found /\ IsCacheHit(entry, size, alignment)
        a == AlignBuffer(buffer_ptr, buffer_offset, alignment)
        uploaded_offset == a.buffer_offset
    IN /\ buf_mapped
       /\ buf_uploads < MaxUploads
       /\ buf_uploads' = buf_uploads + 1
       /\ IF hit
          THEN /\ UNCHANGED <<buffer_ptr, buffer_offset, buffer_entries, buf_stale>>
               /\ buf_last' = BufUploaded("UploadMemory", alignment, size, TRUE,
                                          entry.offset, buffer_ptr)
          ELSE /\ BufAdvance(alignment, size)
               /\ buffer_entries' =
                      IF use_cache
                      THEN [buffer_entries EXCEPT ![gpu_addr] =
                               [offset |-> uploaded_offset, size |-> size,
                                alignment |-> alignment]]
                      ELSE buffer_entries
               /\ buf_stale' = IF use_cache THEN buf_stale \ {gpu_addr} ELSE buf_stale
               /\ buf_last' = BufUploaded("UploadMemory", alignment, size, FALSE,
                                          uploaded_offset, a.buffer_ptr)
       /\ BufAccount(buf_last')
       /\ UNCHANGED <<buffer_offset_base, stream_offset, fences, buf_mapped,
                      reserved_ptr, texVars, pipeVars, poolVars, extVars>>

BufUploadHostMemory(size, alignment) ==
    LET a == AlignBuffer(buffer_ptr, buffer_offset, alignment)
    IN /\ buf_mapped
       /\ buf_uploads < MaxUploads
       /\ buf_uploads' = buf_uploads + 1
       /\ BufAdvance(alignment, size)
       /\ buf_last' = BufUploaded("UploadHostMemory", alignment, size, FALSE,
                                  a.buffer_offset, a.buffer_ptr)
       /\ BufAccount(buf_last')
       /\ UNCHANGED <<buffer_offset_base, buffer_entries, stream_offset, fences,
                      buf_mapped, reserved_ptr, buf_stale, texVars, pipeVars, poolVars,
                      extVars>>

BufReserveMemory(size, alignment) ==
    LET a == AlignBuffer(buffer_ptr, buffer_offset, alignment)
    IN /\ buf_mapped
       /\ buf_uploads < MaxUploads
       /\ buf_uploads' = buf_uploads + 1
       /\ BufAdvance(alignment, size)
       /\ buf_last' = BufUploaded("ReserveMemory", alignment, size, FALSE,
                                  a.buffer_offset, a.buffer_ptr)
       /\ BufAccount(buf_last')
       /\ UNCHANGED <<buffer_offset_base, buffer_entries, stream_offset, fences,
                      buf_mapped, reserved_ptr, buf_stale, texVars, pipeVars, poolVars,
                      extVars>>

BufSend ==
    LET r == Send(buffer_offset, buffer_offset_base, stream_offset, fences)
    IN /\ buf_mapped
       /\ stream_offset' = r.offset
       /\ fences' = r.fences
       /\ buf_mapped' = FALSE
       /\ buf_last' = [op |-> "Send", size |-> r.offset - stream_offset]
       /\ UNCHANGED <<buffer_ptr, buffer_offset, buffer_offset_base, buffer_entries,
                      buf_uploads, reserved_ptr, buf_high, buf_bytes, buf_padding,
                      buf_stale, texVars, pipeVars, poolVars, extVars>>

\* The GPU finishes a submission: its fence is signaled.
BufFenceSignaled(f) ==
    /\ f \in fences
    /\ fences' = fences \ {f}
    /\ buf_last' = [op |-> "FenceSignaled"]
    /\ UNCHANGED <<buffer_ptr, buffer_offset, buffer_offset_base, buffer_entries,
                   stream_offset, buf_mapped, buf_uploads, reserved_ptr,
                   buf_high, buf_bytes, buf_padding, buf_stale, texVars, pipeVars, poolVars,
                   extVars>>

BufInitState ==
    /\ buffer_ptr = 0
    /\ buffer_offset = 0
    /\ buffer_offset_base = 0
    /\ buffer_entries = [a \in GuestBufAddrs |-> NoEntry]
    /\ stream_offset = 0
    /\ fences = {}
    /\ buf_mapped = FALSE
    /\ buf_uploads = 0
    /\ reserved_ptr = 0
    /\ buf_high = 0
    /\ buf_bytes = 0
    /\ buf_padding = 0
    /\ buf_stale = {}
    /\ buf_last = [op |-> "none"]

\* ------------------------------------------------------------------------
\* CachedShader::DescriptorPool (vk_pipeline_cache.cpp) over VKFencedPool
\* ------------------------------------------------------------------------
\* Descriptor sets per pool and growth step of the fenced pool (0x400 in the
\* source, scaled down).
SETS_PER_POOL == 2
\* Pools one shader allocates.
MaxPools == 2
\* The fences of the submissions that can be in flight.
PoolFences == {1, 2}

\* Mutant: every index is looked up in the first pool.
Commit_FirstPool(allocs, index) ==
    allocs[1][(index % SETS_PER_POOL) + 1]

\* DescriptorPool::Commit: the descriptor set of resource index.
Commit(allocs, index) ==
    LET pool_index == index \div SETS_PER_POOL
        set_index == index % SETS_PER_POOL
    IN allocs[pool_index + 1][set_index + 1]

\* DescriptorPool::Allocate: one more pool and its SETS_PER_POOL descriptor sets.
Allocate(allocs, begin, end) ==
    Append(allocs, [i \in 1 .. SETS_PER_POOL |-> <<Len(allocs) + 1, i>>])

\* VKFencedPool::CommitResource: the first resource no fence watches, searched
\* from free_iterator to the end and then from the beginning; when there is
\* none the pool grows by its growth step and the first new resource is taken.
\* The resource is then watched by the fence.
CommitResource(ws, hint, allocs, fence) ==
    LET size == Len(ws)
        free == {i \in 0 .. (size - 1) : ws[i + 1] = 0}
        after == {i \in free : i >= hint}
        found == IF after # {} THEN CHOOSE i \in after : \A j \in after : i <= j
                 ELSE IF free # {} THEN CHOOSE i \in free : \A j \in free : i <= j
                 ELSE size
        grown == free = {}
        ws2 == IF grown THEN ws \o [i \in 1 .. SETS_PER_POOL |-> 0] ELSE ws
    IN [index |-> found,
        watches |-> [ws2 EXCEPT ![found + 1] = fence],
        free_iterator |-> (found + 1) % Len(ws2),
        allocations |-> IF grown THEN Allocate(allocs, size, size + SETS_PER_POOL)
                        ELSE allocs,
        grown |-> grown]

\* --- actions ---
\* CachedShader::CommitDescriptorSet for a shader that uses descriptors.
PoolCommit(fence) ==
    LET r == CommitResource(watches, free_iterator, allocations, fence)
        set == Commit(r.allocations, r.index)
    IN /\ Len(r.allocations) <= MaxPools
       /\ watches' = r.watches
       /\ free_iterator' = r.free_iterator
       /\ allocations' = r.allocations
       /\ pool_in_use' = pool_in_use \cup {[set |-> set, fence |-> fence]}
       /\ pool_last' = [op |-> "Commit", fence |-> fence, set |-> set,
                         grown |-> r.grown]
       /\ UNCHANGED <<texVars, pipeVars, bufVars, extVars>>

\* The fence is observed signaled: the resources it watched are free again.
PoolFenceSignaled(fence) ==
    /\ \E i \in 1 .. Len(watches) : watches[i] = fence
    /\ watches' = [i \in 1 .. Len(watches) |->
                      IF watches[i] = fence THEN 0 ELSE watches[i]]
    /\ pool_in_use' = {u \in pool_in_use : u.fence # fence}
    /\ pool_last' = [op |-> "FenceSignaled", fence |-> fence]
    /\ UNCHANGED <<free_iterator, allocations, texVars, pipeVars, bufVars, extVars>>

PoolInitState ==
    /\ watches = <<>>
    /\ free_iterator = 0
    /\ allocations = <<>>
    /\ pool_in_use = {}
    /\ pool_last = [op |-> "none"]

\* ------------------------------------------------------------------------
\* VKBlitScreen: raw images, staging buffer and their fence watches
\* ------------------------------------------------------------------------
\* swapchain.GetImageCount()
ImageCount == 2
\* Number of frames drawn in one behaviour.
MaxDraws == 3
\* Framebuffer configurations, as far as RefreshResources looks at them.
Framebuffers == {[width |-> 1, height |-> 1], [width |-> 2, height |-> 1]}

\* VKFenceWatch::Wait: returns once the watched fence is signaled, that is once
\* the work submitted up to that fence is complete; the watch is then empty.
WatchWait(ws, i, in_flight) ==
    IF ws[i] = 0
    THEN [watches |-> ws, in_flight |-> in_flight, waited |-> {}]
    ELSE [watches |-> [ws EXCEPT ![i] = 0],
          in_flight |-> {s \in in_flight : s.fence > ws[i]},
          waited |-> {ws[i]}]

\* The loop of ReleaseRawImages: watches[i]->Wait() for i < raw_images.size().
RECURSIVE WaitWatches(_, _, _, _)
WaitWatches(i, size, ws, in_flight) ==
    IF i >= size
    THEN [watches |-> ws, in_flight |-> in_flight, waited |-> {}]
    ELSE LET w == WatchWait(ws, i, in_flight)
             rest == WaitWatches(i + 1, size, w.watches, w.in_flight)
         IN [rest EXCEPT !.waited = w.waited \cup @]

\* Mutant: only the watch of the first raw image is waited on.
ReleaseRawImages_FirstWatchOnly(images, ws, in_flight) ==
    LET w == WaitWatches(0, IF images = <<>> THEN 0 ELSE 1, ws, in_flight)
    IN [raw_images |-> <<>>, watches |-> w.watches, in_flight |-> w.in_flight,
        waited |-> w.waited,
        destroyed |-> {images[k] : k \in 1 .. Len(images)},
        at_destroy |-> w.in_flight]

\* VKBlitScreen::ReleaseRawImages: wait on the watch of every raw image, then
\* destroy the raw images, their commits, the staging buffer and its commit.
\* destroyed names the generation destroyed, at_destroy the submissions the
\* GPU has not finished at that moment.
ReleaseRawImages(images, ws, in_flight) ==
    LET w == WaitWatches(0, Len(images), ws, in_flight)
    IN [raw_images |-> <<>>, watches |-> w.watches, in_flight |-> w.in_flight,
        waited |-> w.waited,
        destroyed |-> {images[k] : k \in 1 .. Len(images)},
        at_destroy |-> w.in_flight]

\* VKBlitScreen::RefreshResources; gen names the resources it creates.
RefreshResources(framebuffer, width, height, images, ws, in_flight, gen) ==
    IF framebuffer.width = width /\ framebuffer.height = height /\ images # <<>>
    THEN [raw_width |-> width, raw_height |-> height, raw_images |-> images,
          watches |-> ws, in_flight |-> in_flight, released |-> FALSE,
          waited |-> {}, destroyed |-> {}, at_destroy |-> {}]
    ELSE LET r == ReleaseRawImages(images, ws, in_flight)
         IN [raw_width |-> framebuffer.width, raw_height |-> framebuffer.height,
             \* CreateStagingBuffer, CreateRawImages
             raw_images |-> [k \in 1 .. ImageCount |-> gen],
             watches |-> r.watches, in_flight |-> r.in_flight, released |-> TRUE,
             waited |-> r.waited, destroyed |-> r.destroyed,
             at_destroy |-> r.at_destroy]

\* --- actions ---
\* VKBlitScreen::Draw: RefreshResources, watch the fence of the execution
\* context, record the blit that reads the staging buffer (and writes raw image
\* image_index unless the display is accelerated), sched.Flush.
BlitDraw(framebuffer, image_index, use_accelerated) ==
    /\ blit_next_fence <= MaxDraws
    /\ LET r == RefreshResources(framebuffer, raw_width, raw_height, raw_images,
                                 blit_watches, blit_in_flight, blit_next_fence)
           fence == blit_next_fence
       IN /\ raw_width' = r.raw_width
          /\ raw_height' = r.raw_height
          /\ raw_images' = r.raw_images
          /\ blit_watches' = [r.watches EXCEPT ![image_index] = fence]
          /\ blit_in_flight' = r.in_flight \cup
                 {[fence |-> fence, gen |-> r.raw_images[image_index + 1],
                   image |-> IF use_accelerated THEN ImageCount ELSE image_index]}
          /\ blit_next_fence' = fence + 1
          /\ blit_last' = [op |-> "Draw", released |-> r.released, waited |-> r.waited,
                           destroyed |-> r.destroyed, at_destroy |-> r.at_destroy]
    /\ UNCHANGED <<texVars, pipeVars, bufVars, poolVars, cfaVars, emuVars, moreVars>>

\* The GPU finishes the oldest submission (submissions complete in order).
BlitFenceSignaled ==
    /\ blit_in_flight # {}
    /\ LET oldest == CHOOSE s \in blit_in_flight :
                         \A t \in blit_in_flight : s.fence <= t.fence
       IN blit_in_flight' = blit_in_flight \ {oldest}
    /\ blit_last' = [op |-> "FenceSignaled"]
    /\ UNCHANGED <<raw_width, raw_height, raw_images, blit_watches, blit_next_fence,
                   texVars, pipeVars, bufVars, poolVars, cfaVars, emuVars, moreVars>>

BlitInitState ==
    /\ raw_width = 0
    /\ raw_height = 0
    /\ raw_images = <<>>
    /\ blit_watches = [i \in 0 .. (ImageCount - 1) |-> 0]
    /\ blit_next_fence = 1
    /\ blit_in_flight = {}
    /\ blit_last = [op |-> "none"]

\* ------------------------------------------------------------------------
\* SpirvModule::Decompile over ControlFlowAnalyzer
\* ------------------------------------------------------------------------
\* PROGRAM_END = MAX_PROGRAM_CODE_LENGTH, scaled down to the length of the
\* programs of the model.
PROGRAM_END == 3

\* The instructions Scan distinguishes: EXIT (predicated or not), BRA with its
\* target, SSY/PBK, and every other instruction (NOP).
Instructions ==
    {[op |-> "NOP"], [op |-> "SSY"], [op |-> "EXIT", pred |-> FALSE],
     [op |-> "EXIT", pred |-> TRUE]}
        \cup {[op |-> "BRA", target |-> t] : t \in 0 .. PROGRAM_END}

\* ProgramCode: program_code[offset] is element offset + 1 of the sequence.
ProgramCodes == [1 .. PROGRAM_END -> Instructions]

\* Mutant: the first branch decides, the second is ignored.
ParallelExit_FirstWins(a, b) == IF a = "Undetermined" THEN b ELSE a

\* Mutant: an undetermined branch makes the merge undetermined.
ParallelExit_UndeterminedWins(a, b) ==
    IF a = "Undetermined" \/ b = "Undetermined" THEN "Undetermined"
    ELSE IF a = b THEN a
    ELSE "Conditional"

\* ControlFlowAnalyzer::ParallelExit
ParallelExit(a, b) ==
    IF a = "Undetermined" THEN b
    ELSE IF b = "Undetermined" THEN a
    ELSE IF a = b THEN a
    ELSE "Conditional"

\* u32 arithmetic: 2^32, scaled down to 2^4.
U32Modulus == 16

WrapU32(x) == x % U32Modulus

\* The u32 values of offset + instr.bra.GetBranchTarget() that lie outside
\* the program: one past PROGRAM_END, and offset 0 with a branch target of -1,
\* which wraps to the largest u32.
WildTargets == {PROGRAM_END + 1, WrapU32(0 - 1)}

\* Branches and SSY/PBK whose target lies outside the program.
WildInstructions ==
    {[op |-> "BRA", target |-> t] : t \in WildTargets}
        \cup {[op |-> "SSY", target |-> t] : t \in WildTargets}

ExitMethods == {"Undetermined", "AlwaysReturn", "Conditional", "AlwaysEnd"}

\* The analyzer before the first Scan: exit_method_map is empty; calls counts
\* the Scan calls that entered their loop, oob collects the indices outside
\* [0, PROGRAM_END) at which program_code was read.
NoScans == [map |-> <<>>, calls |-> 0, oob |-> {}]

\* ControlFlowAnalyzer::Scan. st.map is exit_method_map; the result carries the
\* exit method returned and the analyzer state after the call. A read of
\* program_code outside the array is undefined: the scan is given up with the
\* exit method "Undefined" and the index is recorded.
RECURSIVE Scan(_, _, _, _)
RECURSIVE ScanLoop(_, _, _, _, _)
\* Mutant: only a range still being analysed is answered from the map; a range
\* already analysed is scanned again.
Scan_RescansFinishedRanges(code, begin, end, st) ==
    IF <<begin, end>> \in DOMAIN st.map /\ st.map[<<begin, end>>] = "Undetermined"
    THEN [exit_method |-> "Undetermined", st |-> st]
    ELSE ScanLoop(code, begin, begin, end,
                  [st EXCEPT !.map = (<<begin, end>> :> "Undetermined") @@ @,
                             !.calls = @ + 1])

ScanLoop(code, offset, begin, end, st) ==
    IF offset = end \/ offset = PROGRAM_END
    THEN [exit_method |-> "AlwaysReturn",
          st |-> [st EXCEPT !.map[<<begin, end>>] = "AlwaysReturn"]]
    ELSE IF offset \notin 0 .. (PROGRAM_END - 1)
    THEN [exit_method |-> "Undefined",
          st |-> [st EXCEPT !.map[<<begin, end>>] = "Undefined",
                            !.oob = @ \cup {offset}]]
    ELSE LET instr == code[offset + 1]
         IN IF instr.op = "EXIT"
            THEN IF ~instr.pred
                 THEN [exit_method |-> "AlwaysEnd",
                       st |-> [st EXCEPT !.map[<<begin, end>>] = "AlwaysEnd"]]
                 ELSE LET not_met == Scan(code, offset + 1, end, st)
                          merged == ParallelExit("AlwaysEnd", not_met.exit_method)
                      IN [exit_method |-> merged,
                          st |-> [not_met.st EXCEPT !.map[<<begin, end>>] = merged]]
            ELSE IF instr.op = "BRA"
                 THEN LET no_jmp == Scan(code, offset + 1, end, st)
                          jmp == Scan(code, instr.target, end, no_jmp.st)
                          merged == ParallelExit(no_jmp.exit_method, jmp.exit_method)
                      IN [exit_method |-> merged,
                          st |-> [jmp.st EXCEPT !.map[<<begin, end>>] = merged]]
                 ELSE ScanLoop(code, offset + 1, begin, end, st)

Scan(code, begin, end, st) ==
    IF <<begin, end>> \in DOMAIN st.map
    THEN [exit_method |-> st.map[<<begin, end>>], st |-> st]
    ELSE ScanLoop(code, begin, begin, end,
                  [st EXCEPT !.map = @ @@ (<<begin, end>> :> "Undetermined"),
                             !.calls = @ + 1])

\* ControlFlowAnalyzer::AddSubroutine on an empty set of subroutines.
AddSubroutine(code, begin, end) ==
    LET scanned == Scan(code, begin, end, NoScans)
    IN [exit_method |-> scanned.exit_method,
        thrown |-> IF scanned.exit_method = "Undetermined"
                   THEN "DecompileFail" ELSE "none",
        calls |-> scanned.st.calls,
        ranges |-> DOMAIN scanned.st.map,
        oob |-> scanned.st.oob]

\* ControlFlowAnalyzer::ControlFlowAnalyzer
ControlFlowAnalyzer(code, offset) ==
    LET program_main == AddSubroutine(code, offset, PROGRAM_END)
    IN IF program_main.thrown # "none"
       THEN program_main
       ELSE [program_main EXCEPT
                !.thrown = IF program_main.exit_method # "AlwaysEnd"
                           THEN "DecompileFail" ELSE "none"]

\* Mutant: the exception of the analyzer is not caught.
Decompile_NoCatch(code, offset) ==
    LET analysis == ControlFlowAnalyzer(code, offset)
    IN [id |-> IF analysis.thrown = "none" THEN 1 ELSE 0,
        exit_method |-> analysis.exit_method,
        failed |-> FALSE, escaped |-> analysis.thrown,
        calls |-> analysis.calls, ranges |-> analysis.ranges, oob |-> analysis.oob]

\* SpirvModule::Decompile: try { analyze; return Generate(...) } catch
\* (DecompileFail) { log }; return {}. id 0 is the empty Id.
Decompile(code, offset) ==
    LET analysis == ControlFlowAnalyzer(code, offset)
        scans == [calls |-> analysis.calls, ranges |-> analysis.ranges,
                  oob |-> analysis.oob]
    IN IF analysis.thrown = "none"
       THEN [id |-> 1, exit_method |-> analysis.exit_method, failed |-> FALSE,
             escaped |-> "none"] @@ scans
       ELSE IF analysis.thrown = "DecompileFail"
            THEN [id |-> 0, exit_method |-> analysis.exit_method, failed |-> TRUE,
                  escaped |-> "none"] @@ scans
            ELSE [id |-> 0, exit_method |-> analysis.exit_method, failed |-> FALSE,
                  escaped |-> analysis.thrown] @@ scans

\* --- actions ---
\* Decompile of the program. When the analysis has read program_code outside
\* the array the behaviour is undefined: the call crashes, or goes on with
\* whatever exit method the bytes read stand for.
CfaDecompile ==
    /\ cfa_last.op = "none"
    /\ LET d == Decompile(program_code, main_offset)
       IN IF d.oob = {}
          THEN cfa_last' = [op |-> "Decompile"] @@ d
          ELSE \E m \in ExitMethods, crashed \in BOOLEAN :
                  cfa_last' = [op |-> IF crashed THEN "Crashed" ELSE "Decompile"]
                                 @@ [d EXCEPT !.exit_method = m,
                                              !.id = IF m = "AlwaysEnd" THEN 1 ELSE 0,
                                              !.failed = (m # "AlwaysEnd")]
    /\ UNCHANGED <<program_code, main_offset, texVars, pipeVars, bufVars, poolVars,
                   blitVars, emuVars, moreVars>>

CfaInitState ==
    /\ program_code = [k \in 1 .. PROGRAM_END |-> [op |-> "EXIT", pred |-> FALSE]]
    /\ main_offset = 0
    /\ cfa_last = [op |-> "none"]

\* ------------------------------------------------------------------------
\* EmuThread: the run flags, their mutex and condition variable
\* ------------------------------------------------------------------------
\* running_cv.notify_all(): a thread blocked in running_cv.wait becomes
\* runnable; with no thread blocked the notification has no effect.
NotifyAll(pc) == IF pc = "blocked" THEN "woken" ELSE pc

\* The predicate the emulation thread waits for.
WaitPredicate == running \/ exec_step \/ stop_run

\* The variables of the other components.
emuRest == <<texVars, pipeVars, bufVars, poolVars, blitVars, cfaVars, moreVars>>

\* --- actions of the calling thread ---
\* EmuThread::ExecStep, first statement: exec_step = true (no lock taken).
EmuExecStepStore ==
    /\ gui_pc.op = "idle"
    /\ exec_step' = TRUE
    /\ gui_pc' = [op |-> "ExecStep", at |-> "notify"]
    /\ UNCHANGED <<running, stop_run, running_mutex, emu_pc, emuRest>>

\* EmuThread::ExecStep, second statement: running_cv.notify_all().
EmuExecStepNotify ==
    /\ gui_pc = [op |-> "ExecStep", at |-> "notify"]
    /\ emu_pc' = NotifyAll(emu_pc)
    /\ gui_pc' = [op |-> "idle"]
    /\ UNCHANGED <<exec_step, running, stop_run, running_mutex, emuRest>>

\* EmuThread::SetRunning: std::unique_lock lock(running_mutex).
EmuSetRunningLock(value) ==
    /\ gui_pc.op = "idle" \/ gui_pc = [op |-> "RequestStop", at |-> "SetRunning"]
    /\ gui_pc.op = "RequestStop" => value = FALSE
    /\ running_mutex = "none"
    /\ running_mutex' = "gui"
    /\ gui_pc' = [op |-> "SetRunning", at |-> "store", value |-> value]
    /\ UNCHANGED <<exec_step, running, stop_run, emu_pc, emuRest>>

\* EmuThread::SetRunning: this->running = running; lock.unlock().
EmuSetRunningStore ==
    /\ gui_pc.op = "SetRunning"
    /\ gui_pc.at = "store"
    /\ running' = gui_pc.value
    /\ running_mutex' = "none"
    /\ gui_pc' = [op |-> "SetRunning", at |-> "notify", value |-> gui_pc.value]
    /\ UNCHANGED <<exec_step, stop_run, emu_pc, emuRest>>

\* EmuThread::SetRunning: running_cv.notify_all().
EmuSetRunningNotify ==
    /\ gui_pc.op = "SetRunning"
    /\ gui_pc.at = "notify"
    /\ emu_pc' = NotifyAll(emu_pc)
    /\ gui_pc' = [op |-> "idle"]
    /\ UNCHANGED <<exec_step, running, stop_run, running_mutex, emuRest>>

\* EmuThread::RequestStop: stop_run = true, then SetRunning(false).
EmuRequestStop ==
    /\ gui_pc.op = "idle"
    /\ ~stop_run
    /\ stop_run' = TRUE
    /\ gui_pc' = [op |-> "RequestStop", at |-> "SetRunning"]
    /\ UNCHANGED <<exec_step, running, running_mutex, emu_pc, emuRest>>

\* --- actions of the emulation thread ---
\* The thread looks at its flags: it runs, executes one step (consuming
\* exec_step), stops, or goes to wait on running_cv.
EmuLoop ==
    /\ emu_pc = "loop"
    /\ IF stop_run
       THEN emu_pc' = "stopped" /\ UNCHANGED exec_step
       ELSE IF running
            THEN UNCHANGED <<emu_pc, exec_step>>
            ELSE IF exec_step
                 THEN exec_step' = FALSE /\ UNCHANGED emu_pc
                 ELSE emu_pc' = "lock" /\ UNCHANGED exec_step
    /\ emu_pc' # emu_pc \/ exec_step' # exec_step
    /\ UNCHANGED <<running, stop_run, running_mutex, gui_pc, emuRest>>

\* std::unique_lock lock(running_mutex), also when re-acquiring after a wake-up.
EmuLock ==
    /\ emu_pc \in {"lock", "woken"}
    /\ running_mutex = "none"
    /\ running_mutex' = "emu"
    /\ emu_pc' = "check"
    /\ UNCHANGED <<exec_step, running, stop_run, gui_pc, emuRest>>

\* running_cv.wait(lock, predicate): the predicate is evaluated under the lock.
EmuCheck ==
    /\ emu_pc = "check"
    /\ IF WaitPredicate
       THEN emu_pc' = "loop" /\ running_mutex' = "none"
       ELSE emu_pc' = "wait" /\ UNCHANGED running_mutex
    /\ UNCHANGED <<exec_step, running, stop_run, gui_pc, emuRest>>

\* running_cv.wait: the lock is released and the thread blocks, atomically.
EmuWait ==
    /\ emu_pc = "wait"
    /\ emu_pc' = "blocked"
    /\ running_mutex' = "none"
    /\ UNCHANGED <<exec_step, running, stop_run, gui_pc, emuRest>>

EmuInitState ==
    /\ exec_step = FALSE
    /\ running = FALSE
    /\ stop_run = FALSE
    /\ running_mutex = "none"
    /\ emu_pc = "loop"
    /\ gui_pc = [op |-> "idle"]

\* ------------------------------------------------------------------------
\* CachedSurface::LoadVKBuffer / FlushVKBuffer over byte contents
\* ------------------------------------------------------------------------
\* The surface of the byte-level model: params.width x params.height texels of
\* one byte each.
SwzDims == [width |-> 2, height |-> 2]

SwzBytes == {0, 1}

SwzSize == SwzDims.width * SwzDims.height

SwzBuffers == [0 .. SwzSize - 1 -> SwzBytes]

SwzParams == {[is_tiled |-> FALSE, block_height |-> 1],
              [is_tiled |-> TRUE, block_height |-> 1],
              [is_tiled |-> TRUE, block_height |-> 2]}

\* The block-linear offset of texel (x, y): blocks of block_height rows, the
\* texels of a block stored column by column.
SwizzleOffset(x, y, block_height) ==
    (y \div block_height) * (SwzDims.width * block_height)
        + x * block_height + (y % block_height)

\* MortonSwizzle(MortonSwizzleMode::MortonToLinear, ...): the linear buffer
\* read out of the block-linear guest memory.
MortonToLinear(guest, block_height) ==
    [p \in 0 .. SwzSize - 1 |->
        guest[SwizzleOffset(p % SwzDims.width, p \div SwzDims.width, block_height)]]

\* CachedSurface::LoadVKBuffer: a tiled surface is de-tiled into vk_buffer, a
\* linear one is copied (memcpy).
SwzLoadVKBuffer ==
    /\ swz_last.op # "aborted"
    /\ swz_vk_buffer' = IF swz_params.is_tiled
                        THEN MortonToLinear(swz_guest, swz_params.block_height)
                        ELSE swz_guest
    /\ swz_last' = [op |-> "load"]
    /\ UNCHANGED <<swz_guest, swz_params,
                   texVars, pipeVars, bufVars, poolVars, blitVars, cfaVars, emuVars, descVars, stageVars, pexitVars>>

\* The GPU renders into the surface: the host copy of byte i becomes b.
SwzRender(i, b) ==
    /\ swz_last.op # "aborted"
    /\ swz_vk_buffer[i] # b
    /\ swz_vk_buffer' = [swz_vk_buffer EXCEPT ![i] = b]
    /\ swz_last' = [op |-> "render"]
    /\ UNCHANGED <<swz_guest, swz_params,
                   texVars, pipeVars, bufVars, poolVars, blitVars, cfaVars, emuVars, descVars, stageVars, pexitVars>>

\* CachedSurface::FlushVKBuffer: UNIMPLEMENTED(); return exctx. Neither
\* vk_buffer nor guest memory is written.
SwzFlushVKBuffer ==
    /\ swz_last.op # "aborted"
    /\ swz_last' = IF fatal_asserts
                   THEN [op |-> "aborted"]
                   ELSE [op |-> "flush", X |-> swz_vk_buffer]
    /\ UNCHANGED <<swz_guest, swz_vk_buffer, swz_params,
                   texVars, pipeVars, bufVars, poolVars, blitVars, cfaVars, emuVars, descVars, stageVars, pexitVars>>

SwzInitState ==
    /\ swz_guest = [p \in 0 .. SwzSize - 1 |-> 0]
    /\ swz_vk_buffer = [p \in 0 .. SwzSize - 1 |-> 0]
    /\ swz_params = [is_tiled |-> FALSE, block_height |-> 1]
    /\ swz_last = [op |-> "none"]

\* ------------------------------------------------------------------------
\* CachedShader: descriptor pool creation and CommitDescriptorSet
\* ------------------------------------------------------------------------
\* What a shader declares: numbers of const buffers, attributes and samplers.
ShaderEntries == [const_buffers : 0 .. 1, attributes : 0 .. 1, samplers : 0 .. 1]

\* The null descriptor set.
NullSet == <<0, 0>>

\* CreateDescriptorPool, PushSize: a descriptor type is listed when the shader
\* declares at least one descriptor of it.
PushSize(pool_sizes, descriptor_type, size) ==
    IF size > 0
    THEN Append(pool_sizes, <<descriptor_type, size * SETS_PER_POOL>>)
    ELSE pool_sizes

PoolSizes(entries) ==
    PushSize(PushSize(PushSize(<<>>, "eUniformBuffer", entries.const_buffers),
                      "eInputAttachment", entries.attributes),
             "eCombinedImageSampler", entries.samplers)

\* Mutant: the pool is created even when no descriptor type is listed.
CreateDescriptorPool_AlwaysCreates(entries) ==
    [created |-> TRUE, pool_sizes |-> PoolSizes(entries)]

\* CachedShader::CreateDescriptorPool: no pool when pool_sizes is empty.
CreateDescriptorPool(entries) ==
    IF Len(PoolSizes(entries)) = 0
    THEN [created |-> FALSE, pool_sizes |-> <<>>]
    ELSE [created |-> TRUE, pool_sizes |-> PoolSizes(entries)]

\* CachedShader::CommitDescriptorSet
DescCommitDescriptorSet(fence) ==
    LET r == CommitResource(watches, free_iterator, allocations, fence)
        set == Commit(r.allocations, r.index)
    IN IF ~descriptor_pool.created
       THEN /\ pool_last' = [op |-> "CommitDescriptorSet", fence |-> fence,
                             set |-> NullSet, grown |-> FALSE]
            /\ UNCHANGED <<watches, free_iterator, allocations, pool_in_use>>
            /\ UNCHANGED <<texVars, pipeVars, bufVars, extVars>>
       ELSE /\ Len(r.allocations) <= MaxPools
            /\ watches' = r.watches
            /\ free_iterator' = r.free_iterator
            /\ allocations' = r.allocations
            /\ pool_in_use' = pool_in_use \cup {[set |-> set, fence |-> fence]}
            /\ pool_last' = [op |-> "CommitDescriptorSet", fence |-> fence,
                             set |-> set, grown |-> r.grown]
            /\ UNCHANGED <<texVars, pipeVars, bufVars, extVars>>

\* The shader of the descriptor pool model declares one const buffer.
DescInitState ==
    /\ shader_entries = [const_buffers |-> 1, attributes |-> 0, samplers |-> 0]
    /\ descriptor_pool = CreateDescriptorPool(shader_entries)

\* ------------------------------------------------------------------------
\* Specifications: one per cache
\* ------------------------------------------------------------------------
\* Initial state of the components outside the four caches.
\* ------------------------------------------------------------------------
\* VKBlitScreen: layout of the staging buffer
\* ------------------------------------------------------------------------
\* sizeof(BufferData): the modelview matrix (16 floats) and four vertices of
\* four floats each.
SizeofBufferData == 128

\* Framebuffer configurations as far as the layout looks at them. stride and
\* height are u32; BytesPerPixel of the pixel format.
StagedFramebuffers == [stride : 0 .. 4, height : 0 .. 3, bytes_per_pixel : {1, 2, 4}]

\* framebuffer.stride * framebuffer.height * bytes_per_pixel, a u32 product.
SizeInBytes(framebuffer) ==
    WrapU32(framebuffer.stride * framebuffer.height * framebuffer.bytes_per_pixel)

\* VKBlitScreen::CalculateBufferSize
CalculateBufferSize(framebuffer) ==
    SizeofBufferData + SizeInBytes(framebuffer) * ImageCount

\* Mutant: the images are numbered from one.
GetRawImageOffset_CountsFromOne(framebuffer, image_index) ==
    SizeofBufferData + SizeInBytes(framebuffer) * (image_index + 1)

\* VKBlitScreen::GetRawImageOffset
GetRawImageOffset(framebuffer, image_index) ==
    SizeofBufferData + SizeInBytes(framebuffer) * image_index

\* VKBlitScreen::Draw without acceleration: the framebuffer is copied to the
\* staging range of image_index in a buffer sized by CalculateBufferSize.
BlitStageRawImage(framebuffer, image_index) ==
    /\ stage_last' = [op |-> "Stage", framebuffer |-> framebuffer,
                      image_index |-> image_index,
                      image_offset |-> GetRawImageOffset(framebuffer, image_index),
                      size_in_bytes |-> SizeInBytes(framebuffer),
                      buffer_size |-> CalculateBufferSize(framebuffer)]
    /\ UNCHANGED <<texVars, pipeVars, bufVars, poolVars, blitVars, cfaVars, emuVars,
                   swzVars, descVars, pexitVars>>

StageInitState == stage_last = [op |-> "none"]

\* ------------------------------------------------------------------------
\* ControlFlowAnalyzer::ParallelExit over a run of parallel branches
\* ------------------------------------------------------------------------
\* Number of branches merged in one behaviour.
MaxBranches == 4

\* The exit method b of one more branch is merged into the exit method so far;
\* the call is also evaluated with its arguments exchanged and with equal
\* arguments.
PexitMerge(b) ==
    /\ Len(pexit_branches) < MaxBranches
    /\ pexit_branches' = Append(pexit_branches, b)
    /\ pexit_acc' = ParallelExit(pexit_acc, b)
    /\ pexit_last' = [op |-> "ParallelExit", a |-> pexit_acc, b |-> b,
                      result |-> ParallelExit(pexit_acc, b),
                      exchanged |-> ParallelExit(b, pexit_acc),
                      same |-> ParallelExit(b, b)]
    /\ UNCHANGED <<texVars, pipeVars, bufVars, poolVars, blitVars, cfaVars, emuVars,
                   swzVars, descVars, stageVars>>

PexitInitState ==
    /\ pexit_branches = <<>>
    /\ pexit_acc = "Undetermined"
    /\ pexit_last = [op |-> "none"]

MoreInitState ==
    /\ SwzInitState
    /\ DescInitState
    /\ StageInitState
    /\ PexitInitState

ExtInitState ==
    /\ BlitInitState
    /\ CfaInitState
    /\ EmuInitState
    /\ MoreInitState

InitTex ==
    /\ fatal_asserts \in BOOLEAN
    /\ TexInitState
    /\ PipeInitState
    /\ BufInitState
    /\ PoolInitState
    /\ ExtInitState

NextTex ==
    \/ \E params \in SurfaceParamsSet, preserve \in BOOLEAN : TexGetView(params, preserve)
    \/ \E addr \in 0 .. (GuestRegionEnd - 1), size \in 1 .. GuestRegionEnd :
          TexInvalidateRegion(addr, size)
    \/ \E i \in 1 .. MaxSurfaces : TexMarkAsModified(i)

SpecTex == InitTex /\ [][NextTex]_vars

\* The texture cache together with the command buffers that read its surfaces.
NextTexUse ==
    \/ \E params \in SurfaceParamsSet, preserve \in BOOLEAN : TexGetView(params, preserve)
    \/ \E addr \in 0 .. (GuestRegionEnd - 1), size \in 1 .. GuestRegionEnd :
          TexInvalidateRegion(addr, size)
    \/ \E i \in 1 .. MaxSurfaces : TexSubmitRead(i)
    \/ TexFenceSignaled

SpecTexUse == InitTex /\ [][NextTexUse]_vars

\* Every component as its constructor leaves it.
Init ==
    /\ fatal_asserts = FALSE
    /\ TexInitState
    /\ PipeInitState
    /\ BufInitState
    /\ PoolInitState
    /\ ExtInitState

NextPipe ==
    \/ \E regs \in RegsSet, rs \in RenderStates : PipeGetPipeline(regs, rs[1], rs[2])
    \/ \E addr \in ShaderAddrs : PipeInvalidateRegion(addr)
    \/ \E addr \in ShaderAddrs : PipeInvalidateRegionNoObject(addr)

SpecPipe == Init /\ [][NextPipe]_vars

NextBuf ==
    \/ \E max_size \in ReserveSizes : BufReserve(max_size)
    \/ \E gpu_addr \in GuestBufAddrs, size \in UploadSizes, alignment \in Alignments,
          cache_arg \in BOOLEAN : BufUploadMemory(gpu_addr, size, alignment, cache_arg)
    \/ \E size \in UploadSizes, alignment \in Alignments :
          BufUploadHostMemory(size, alignment)
    \/ \E size \in UploadSizes, alignment \in Alignments :
          BufReserveMemory(size, alignment)
    \/ BufSend
    \/ \E f \in fences : BufFenceSignaled(f)

SpecBuf == Init /\ [][NextBuf]_vars

NextPool ==
    \/ \E fence \in PoolFences : PoolCommit(fence)
    \/ \E fence \in PoolFences : PoolFenceSignaled(fence)

SpecPool == Init /\ [][NextPool]_vars

NextBlit ==
    \/ \E framebuffer \in Framebuffers, image_index \in 0 .. (ImageCount - 1),
          use_accelerated \in BOOLEAN : BlitDraw(framebuffer, image_index, use_accelerated)
    \/ BlitFenceSignaled

SpecBlit == Init /\ [][NextBlit]_vars

\* Every shader program of the bounded length, entered at offset 0 or 1.
InitCfa ==
    /\ fatal_asserts = FALSE
    /\ TexInitState
    /\ PipeInitState
    /\ BufInitState
    /\ PoolInitState
    /\ BlitInitState
    /\ EmuInitState
    /\ MoreInitState
    /\ program_code \in ProgramCodes
    /\ main_offset \in 0 .. 1
    /\ cfa_last = [op |-> "none"]

NextCfa == CfaDecompile

SpecCfa == InitCfa /\ [][NextCfa]_vars

NextEmu ==
    \/ EmuExecStepStore
    \/ EmuExecStepNotify
    \/ \E value \in BOOLEAN : EmuSetRunningLock(value)
    \/ EmuSetRunningStore
    \/ EmuSetRunningNotify
    \/ EmuRequestStop
    \/ EmuLoop
    \/ EmuLock
    \/ EmuCheck
    \/ EmuWait

SpecEmu == Init /\ [][NextEmu]_vars

NextStage ==
    \E framebuffer \in StagedFramebuffers, image_index \in 0 .. (ImageCount - 1) :
        BlitStageRawImage(framebuffer, image_index)

SpecStage == Init /\ [][NextStage]_vars

NextPexit == \E b \in ExitMethods : PexitMerge(b)

SpecPexit == Init /\ [][NextPexit]_vars

\* Any program, branches out of the program included.
InitCfaWild ==
    /\ fatal_asserts = FALSE
    /\ TexInitState
    /\ PipeInitState
    /\ BufInitState
    /\ PoolInitState
    /\ BlitInitState
    /\ EmuInitState
    /\ MoreInitState
    /\ program_code \in [1 .. PROGRAM_END -> Instructions \cup WildInstructions]
    /\ main_offset \in 0 .. 1
    /\ cfa_last = [op |-> "none"]

NextCfaWild == CfaDecompile

SpecCfaWild == InitCfaWild /\ [][NextCfaWild]_vars

\* The byte-level surface: any guest contents, any staging contents (the
\* mapped memory is not initialised), any tiling.
InitSwz ==
    /\ fatal_asserts \in BOOLEAN
    /\ TexInitState
    /\ PipeInitState
    /\ BufInitState
    /\ PoolInitState
    /\ BlitInitState
    /\ CfaInitState
    /\ EmuInitState
    /\ swz_guest \in SwzBuffers
    /\ swz_vk_buffer \in SwzBuffers
    /\ swz_params \in SwzParams
    /\ swz_last = [op |-> "none"]
    /\ DescInitState
    /\ StageInitState
    /\ PexitInitState

NextSwz ==
    \/ SwzLoadVKBuffer
    \/ \E i \in 0 .. SwzSize - 1, b \in SwzBytes : SwzRender(i, b)
    \/ SwzFlushVKBuffer

SpecSwz == InitSwz /\ [][NextSwz]_vars

\* A shader with any declared entries, as constructed.
InitDesc ==
    /\ fatal_asserts = FALSE
    /\ TexInitState
    /\ PipeInitState
    /\ BufInitState
    /\ PoolInitState
    /\ BlitInitState
    /\ CfaInitState
    /\ EmuInitState
    /\ SwzInitState
    /\ StageInitState
    /\ PexitInitState
    /\ shader_entries \in ShaderEntries
    /\ descriptor_pool = CreateDescriptorPool(shader_entries)

NextDesc ==
    \/ \E fence \in PoolFences : DescCommitDescriptorSet(fence)
    \/ \E fence \in PoolFences : PoolFenceSignaled(fence)

SpecDesc == InitDesc /\ [][NextDesc]_vars

\* ------------------------------------------------------------------------
\* Properties of VKTextureCache
\* ------------------------------------------------------------------------
\* The guest bytes a registered surface owns.
SurfaceBytes(s) == {b \in 0 .. (GuestRegionEnd - 1) :
                        s.addr <= b /\ b < s.addr + s.cached_size_in_bytes}
\* The guest bytes of a request [addr, addr + size).
RequestBytes(addr, size) == addr .. (addr + size - 1)
Registered == {registered_surfaces[i] : i \in 1 .. Len(registered_surfaces)}
RegisteredIds(regs) == {regs[i].id : i \in 1 .. Len(regs)}
HasEvent(trace, kind) == \E k \in 1 .. Len(trace) : trace[k][1] = kind
\* Event <<kind, id>> occurs in the trace strictly before position k.
Before(trace, kind, id, k) == \E i \in 1 .. (k - 1) : trace[i] = <<kind, id>>

\* C1: in every reachable state no two registered surfaces own a common guest
\* byte (GetView has evicted every overlapping surface before registering).
C1_NoTwoSurfacesShareAByte ==
    \A i, j \in 1 .. Len(registered_surfaces) :
        i # j => SurfaceBytes(registered_surfaces[i])
                     \cap SurfaceBytes(registered_surfaces[j]) = {}

\* A GetView evicted an overlap and registered the new surface next to another one.
C1_Witness ==
    /\ tex_last.op = "GetView"
    /\ HasEvent(tex_trace, "erase")
    /\ HasEvent(tex_trace, "register")
    /\ Len(registered_surfaces) >= 2

\* C2: a GetView whose parameters exactly match a registered surface returns
\* the view of that very surface, creates no surface and leaves
\* registered_surfaces unchanged.
C2_ExactMatchReturnsSameSurface ==
    [][(tex_last'.op = "GetView") =>
          \A s \in Registered :
              (s.addr = tex_last'.params.addr /\ s.width = tex_last'.params.width
                  /\ s.height = tex_last'.params.height) =>
                  (/\ tex_last'.view = s.id
                   /\ registered_surfaces' = registered_surfaces
                   /\ tex_next_id' = tex_next_id
                   /\ ~HasEvent(tex_trace', "create"))]_vars

\* A repeated lookup hit a registered surface while another surface was registered.
C2_Witness ==
    /\ tex_last.op = "GetView"
    /\ tex_trace = <<>>
    /\ \E s \in Registered : s.id = tex_last.view /\ s.id < tex_next_id - 1
    /\ Len(registered_surfaces) >= 2

\* The registered surfaces a request overlaps without an exact single match.
EvictedBy(params) ==
    LET hit == {s \in Registered :
                   SurfaceBytes(s) \cap RequestBytes(params.addr, GetSizeInBytes(params)) # {}}
    IN IF \E s \in hit : hit = {s} /\ s.addr = params.addr /\ s.width = params.width
                            /\ s.height = params.height
       THEN {}
       ELSE hit

\* The order of a GetView that creates a surface: every overlap has had Flush
\* called on it and has then been erased, before the create.
FlushEvictCreate(params, trace, regs) ==
    \A k \in 1 .. Len(trace) :
        trace[k][1] = "create" =>
            \A s \in EvictedBy(params) :
                /\ \E j \in 1 .. (k - 1) :
                      /\ trace[j] = <<"erase", s.id>>
                      /\ Before(trace, "flush", s.id, j)
                /\ s.id \notin RegisteredIds(regs)

C4_InvalidateRegionEvictsOverlapsOnly ==
    [][(tex_last'.op = "InvalidateRegion") =>
          /\ registered_surfaces' =
                SelectSeq(registered_surfaces,
                          LAMBDA s : SurfaceBytes(s)
                                       \cap RequestBytes(tex_last'.addr, tex_last'.size) = {})
          /\ ~HasEvent(tex_trace', "flush")
          /\ ~HasEvent(tex_trace', "writeback")]_vars

\* An InvalidateRegion removed a surface and left another one registered.
C4_Witness ==
    /\ tex_last.op = "InvalidateRegion"
    /\ tex_last.removed >= 1
    /\ Len(registered_surfaces) >= 1

\* ------------------------------------------------------------------------
\* Properties of VKPipelineCache
\* ------------------------------------------------------------------------
\* The stage shader addresses of a register snapshot, as the key holds them:
\* the code address of every program GetPipeline iterates, 0 for the others.
StageAddresses(regs) ==
    [p \in Programs |->
        IF regs.enabled[p] /\ ~(p = VertexB /\ regs.enabled[VertexA])
        THEN regs.code[p] ELSE 0]

\* An earlier call c, whose entry is still cached, had exactly these inputs.
SameInputs(c, regs, rp, pp) ==
    c.regs = regs /\ c.renderpass_params = rp /\ c.params = pp

\* An earlier call c differs from these inputs in exactly one key component.
DiffersInOneComponent(c, regs, rp, pp) ==
    Cardinality({k \in {"shaders", "renderpass", "params"} :
        \/ k = "shaders" /\ StageAddresses(c.regs) # StageAddresses(regs)
        \/ k = "renderpass" /\ c.renderpass_params # rp
        \/ k = "params" /\ c.params # pp}) = 1

\* An earlier call c has the same key components as these inputs.
SameKeyComponents(c, regs, rp, pp) ==
    /\ StageAddresses(c.regs) = StageAddresses(regs)
    /\ c.renderpass_params = rp
    /\ c.params = pp

\* C5: a GetPipeline call with the inputs of an earlier call whose entry has not
\* been invalidated returns the same pipeline handle and layout and builds
\* nothing.
C5_IdenticalInputsHitTheCache ==
    [][(pipe_last'.op = "GetPipeline") =>
          LET regs == pipe_last'.regs
              rs == <<pipe_last'.renderpass_params, pipe_last'.params>>
          IN  \A c \in pipe_served :
                  SameInputs(c, regs, rs[1], rs[2]) =>
                      /\ pipe_last'.pipeline.handle = c.pipeline.handle
                      /\ pipe_last'.pipeline.layout = c.pipeline.layout
                      /\ ~pipe_last'.is_cache_miss
                      /\ pipelines_built' = pipelines_built
                      /\ cache' = cache]_vars

\* A call repeated the inputs of an earlier call while two entries were cached.
C5_Witness ==
    /\ pipe_last.op = "GetPipeline"
    /\ pipe_last.repeated
    /\ Cardinality(cache) >= 2

\* C6 (as amended): a GetPipeline call that differs from an earlier call in a
\* component of the key never returns the earlier call's entry; it inserts a new
\* entry and builds a new pipeline unless an entry for its own key is already
\* cached, which it then returns.
C6_DifferentKeyNeverSharesAnEntry ==
    [][(pipe_last'.op = "GetPipeline") =>
          LET regs == pipe_last'.regs
              rs == <<pipe_last'.renderpass_params, pipe_last'.params>>
          IN  \A c \in pipe_served :
                  DiffersInOneComponent(c, regs, rs[1], rs[2]) =>
                      /\ pipe_last'.pipeline.handle # c.pipeline.handle
                      /\ pipe_last'.pipeline.layout # c.pipeline.layout
                      /\ IF \E d \in pipe_served : SameKeyComponents(d, regs, rs[1], rs[2])
                         THEN /\ ~pipe_last'.is_cache_miss
                              /\ cache' = cache
                              /\ \E d \in pipe_served :
                                    /\ SameKeyComponents(d, regs, rs[1], rs[2])
                                    /\ pipe_last'.pipeline.handle = d.pipeline.handle
                         ELSE /\ pipe_last'.is_cache_miss
                              /\ pipelines_built' = pipelines_built + 1
                              /\ Cardinality(cache') = Cardinality(cache) + 1
                              /\ \A e \in cache :
                                    e.pipeline # pipe_last'.pipeline.handle]_vars

\* C6 (as claimed): a GetPipeline call that differs from an earlier call in one
\* component of the key always misses, inserts an entry and builds a pipeline.
C6_Original_DifferentKeyAlwaysMisses ==
    [][(pipe_last'.op = "GetPipeline") =>
          LET regs == pipe_last'.regs
              rs == <<pipe_last'.renderpass_params, pipe_last'.params>>
          IN  \A c \in pipe_served :
                  DiffersInOneComponent(c, regs, rs[1], rs[2]) =>
                      /\ pipe_last'.pipeline.handle # c.pipeline.handle
                      /\ pipe_last'.is_cache_miss
                      /\ pipelines_built' = pipelines_built + 1
                      /\ Cardinality(cache') = Cardinality(cache) + 1]_vars

\* A call missed and built the second pipeline next to the first call's entry.
C6_Witness ==
    /\ pipe_last.op = "GetPipeline"
    /\ pipe_last.is_cache_miss
    /\ Cardinality(cache) >= 2
    /\ \E c \in pipe_served : c.pipeline.handle # pipe_last.pipeline.handle

\* C7: ObjectInvalidated for the shader at address A removes exactly the cache
\* entries whose key holds A; the remaining entries are unchanged.
C7_InvalidationRemovesExactlyTheReferencingEntries ==
    [][(pipe_last'.op = "ObjectInvalidated") =>
          /\ cache' \subseteq cache
          /\ \A e \in cache :
                (e \in cache') <=>
                    (\A p \in Programs : e.key.shaders[p] # pipe_last'.addr)]_vars

\* An invalidation removed an entry and left another one cached.
C7_Witness ==
    /\ pipe_last.op = "ObjectInvalidated"
    /\ pipe_last.removed >= 1
    /\ cache # {}

\* C8: with VertexA enabled, a call that differs from an earlier call (whose
\* entry is still cached) only in VertexB's address resolves to a different
\* vertex shader and a different pipeline cache entry.
C8_VertexBAddressIsPartOfTheIdentity ==
    [][(pipe_last'.op = "GetPipeline") =>
          LET regs == pipe_last'.regs
              rs == <<pipe_last'.renderpass_params, pipe_last'.params>>
          IN  \A c \in pipe_served :
                  (/\ c.renderpass_params = rs[1]
                   /\ c.params = rs[2]
                   /\ regs.enabled[VertexA]
                   /\ c.regs.enabled[VertexA]
                   /\ c.regs.code[VertexB] # regs.code[VertexB]
                   /\ \A p \in Programs \ {VertexB} : c.regs.code[p] = regs.code[p]) =>
                      /\ pipe_last'.pipeline.handle # c.pipeline.handle
                      /\ pipe_last'.pipeline.shaders[0] # c.pipeline.shaders[0]]_vars

\* ------------------------------------------------------------------------
\* Properties of VKBufferCache
\* ------------------------------------------------------------------------
\* The ranges the producer has filled for a submission the GPU has not finished.
LiveRanges(live) == {f.written : f \in live}

\* offset is the least multiple of alignment that is not below cursor.
IsRoundedUp(offset, cursor, alignment) ==
    /\ offset >= cursor
    /\ offset % alignment = 0
    /\ offset - cursor < alignment

UploadOps == {"UploadMemory", "UploadHostMemory", "ReserveMemory"}

\* C9: Reserve is possible whenever no reservation is open; a Reserve larger
\* than the space left up to the end of the stream buffer waits on a fence or
\* reports the invalidation; the range it returns lies inside the stream buffer
\* and has no byte in common with a range whose fence is still unsignaled.
C9_ReserveWaitsOrInvalidatesAndNeverOverlapsLiveRanges ==
    /\ [](~buf_mapped => \A max_size \in ReserveSizes : ENABLED BufReserve(max_size))
    /\ [][(buf_last'.op = "Reserve") =>
             LET returned == <<buffer_offset_base', buffer_offset_base' + buf_last'.size>>
             IN /\ (stream_offset + buf_last'.size > BufferSize) =>
                       (buf_last'.waited \/ buf_last'.invalidate)
                /\ returned[2] <= BufferSize
                /\ \A r \in LiveRanges(fences') : ~Overlaps(r, returned)]_vars

\* A Reserve that did not fit wrapped, reported the invalidation and waited on a
\* fence while the fence of another submission stayed unsignaled.
C9_Witness ==
    /\ buf_last.op = "Reserve"
    /\ buf_last.invalidate
    /\ buf_last.waited
    /\ \E f \in fences : f.written[1] < f.written[2]

\* C10: the offset UploadMemory (when it uploads), UploadHostMemory and
\* ReserveMemory return is the cursor rounded up to the alignment, the content
\* is placed at the mapped address of that offset, and after every operation
\* buffer_ptr - mapped base = buffer_offset - buffer_offset_base.
C10_OffsetRoundedUpAndPointerFollows ==
    [][/\ buffer_ptr' - reserved_ptr' = buffer_offset' - buffer_offset_base'
       /\ (buf_last'.op \in UploadOps /\ ~buf_last'.hit) =>
             /\ buf_last'.cursor = buffer_offset
             /\ IsRoundedUp(buf_last'.offset, buffer_offset, buf_last'.alignment)
             /\ buf_last'.ptr - buffer_ptr = buf_last'.offset - buffer_offset
             /\ buf_last'.ptr - reserved_ptr = buf_last'.offset - buffer_offset_base
             /\ buffer_offset' = buf_last'.offset + buf_last'.size
             /\ buffer_ptr' = buf_last'.ptr + buf_last'.size]_vars

\* An upload was padded: its offset lies above the cursor it found, inside a
\* reservation that does not start at offset 0.
C10_Witness ==
    /\ buf_last.op \in UploadOps
    /\ ~buf_last.hit
    /\ buf_last.offset > buf_last.cursor
    /\ buffer_offset_base > 0

\* C11 (as amended): within one reservation every UploadHostMemory returns an
\* offset at or above the end of every range uploaded before it, so the offsets
\* increase and the ranges [offset, offset + size) never overlap; two successive
\* calls requesting the same alignment return offsets at least that alignment
\* apart.
C11_HostUploadsIncreaseAndNeverOverlap ==
    [][(buf_last'.op = "UploadHostMemory") =>
          /\ buf_last'.offset >= buf_high
          /\ buf_high' = buf_last'.offset + buf_last'.size
          /\ (buf_last.op = "UploadHostMemory") =>
                /\ buf_last'.offset > buf_last.offset
                /\ buf_last'.offset >= buf_last.offset + buf_last.size
                /\ (buf_last'.alignment = buf_last.alignment) =>
                      buf_last'.offset - buf_last.offset >= buf_last'.alignment]_vars

\* C11 (as claimed): every UploadHostMemory returns an offset at least its
\* requested alignment above the offset of the call before it.
C11_Original_SpacedByRequestedAlignment ==
    [][(buf_last'.op = "UploadHostMemory" /\ buf_last.op = "UploadHostMemory") =>
          /\ buf_last'.offset > buf_last.offset
          /\ buf_last'.offset - buf_last.offset >= buf_last'.alignment]_vars

\* A second UploadHostMemory of a reservation was padded up to its alignment.
C11_Witness ==
    /\ buf_last.op = "UploadHostMemory"
    /\ buf_bytes > buf_last.size
    /\ buf_last.offset > buf_last.cursor
    /\ buf_last.cursor > buffer_offset_base

\* C12: Send publishes exactly buffer_offset - buffer_offset_base bytes, which
\* is the sum of the sizes uploaded since the last Reserve plus the padding
\* inserted since then; the stream buffer attaches exactly that range to the
\* fence and moves its cursor past it.
C12_SendPublishesBytesPlusPadding ==
    [][(buf_last'.op = "Send") =>
          /\ buf_last'.size = buffer_offset - buffer_offset_base
          /\ buf_last'.size = buf_bytes + buf_padding
          /\ stream_offset' = stream_offset + buf_bytes + buf_padding
          /\ \E f \in fences' :
                f.watch = <<stream_offset, stream_offset + buf_bytes + buf_padding>>]_vars

\* A Send published uploads and padding of a reservation that does not start
\* at offset 0.
C12_Witness ==
    /\ buf_last.op = "Send"
    /\ buf_bytes > 0
    /\ buf_padding > 0
    /\ buffer_offset_base > 0
    /\ buf_last.size = buf_bytes + buf_padding

\* The guest addresses that have a registered entry.
RegisteredAddrs(entries) == {a \in GuestBufAddrs : entries[a] # NoEntry}

\* C13: a Reserve for which the stream buffer reports an invalidation leaves no
\* buffer entry registered; no registered entry predates the last invalidation,
\* and an UploadMemory answered from the cache returns the offset of an entry
\* registered since then.
C13_InvalidationDropsEveryEntry ==
    /\ [](\A a \in RegisteredAddrs(buffer_entries) : a \notin buf_stale)
    /\ [][/\ (buf_last'.op = "Reserve" /\ buf_last'.invalidate) =>
                RegisteredAddrs(buffer_entries') = {}
          /\ (buf_last'.op = "UploadMemory" /\ buf_last'.hit) =>
                \E a \in RegisteredAddrs(buffer_entries) \ buf_stale :
                    buffer_entries[a].offset = buf_last'.offset]_vars

\* A Reserve wrapped and dropped the registered entry.
C13_Witness ==
    /\ buf_last.op = "Reserve"
    /\ buf_last.invalidate
    /\ buf_last.dropped >= 1
    /\ RegisteredAddrs(buffer_entries) = {}

\* C14: UploadMemory with caching in effect (cache requested, size at least the
\* threshold) for an address with a registered entry: if the entry is large
\* enough and has the requested alignment, its offset is returned and cursor,
\* pointer and entries are unchanged; otherwise the entry is replaced by one at
\* a fresh offset, at or above the cursor, where the data is uploaded again.
C14_CacheHitReturnsEntryElseUploadsAgain ==
    [][(buf_last'.op = "UploadMemory") =>
          \A gpu_addr \in GuestBufAddrs, size \in UploadSizes, alignment \in Alignments :
              (/\ BufUploadMemory(gpu_addr, size, alignment, TRUE)
               /\ size >= CacheThreshold
               /\ buffer_entries[gpu_addr] # NoEntry) =>
                  LET entry == buffer_entries[gpu_addr]
                  IN IF entry.size >= size /\ entry.alignment = alignment
                     THEN /\ buf_last'.hit
                          /\ buf_last'.offset = entry.offset
                          /\ buffer_ptr' = buffer_ptr
                          /\ buffer_offset' = buffer_offset
                          /\ buffer_entries' = buffer_entries
                          /\ buf_bytes' = buf_bytes
                     ELSE /\ ~buf_last'.hit
                          /\ buf_last'.offset >= buffer_offset
                          /\ buf_last'.offset >= buf_high
                          /\ buffer_offset' = buf_last'.offset + size
                          /\ buf_bytes' = buf_bytes + size
                          /\ buffer_entries'[gpu_addr] # entry
                          /\ buffer_entries' =
                                [buffer_entries EXCEPT ![gpu_addr] =
                                    [offset |-> buf_last'.offset, size |-> size,
                                     alignment |-> alignment]]]_vars

\* An UploadMemory was answered with the offset of an entry uploaded in an
\* earlier reservation, after an upload into the current one.
C14_Witness ==
    /\ buf_last.op = "UploadMemory"
    /\ buf_last.hit
    /\ buf_last.offset < buffer_offset_base
    /\ buf_bytes > 0

\* ------------------------------------------------------------------------
\* Properties of CachedShader::DescriptorPool
\* ------------------------------------------------------------------------
\* The descriptor sets allocated so far.
AllSets(allocs) ==
    {allocs[p][i] : p \in 1 .. Len(allocs), i \in 1 .. SETS_PER_POOL}
\* The sets handed out against a fence that has not been signaled.
SetsInUse == {u.set : u \in pool_in_use}

\* C15: Commit never hands out a set that was handed out against a fence not
\* yet signaled; when every allocated set is in use it allocates exactly one
\* more pool of SETS_PER_POOL sets, otherwise none; the pools and sets
\* allocated are never released or replaced.
C15_CommittedSetIsFreeAndPoolOnlyGrows ==
    [][/\ Len(allocations') >= Len(allocations)
       /\ \A p \in 1 .. Len(allocations) : allocations'[p] = allocations[p]
       /\ (pool_last'.op = "Commit") =>
             /\ pool_last'.set \notin SetsInUse
             /\ pool_last'.set \in AllSets(allocations')
             /\ IF AllSets(allocations) \subseteq SetsInUse
                THEN /\ Len(allocations') = Len(allocations) + 1
                     /\ Cardinality(AllSets(allocations')) =
                           Cardinality(AllSets(allocations)) + SETS_PER_POOL
                ELSE allocations' = allocations]_vars

\* With two pools allocated and other sets still in use, a Commit handed out a
\* set of the first pool again after its fence was signaled.
C15_Witness ==
    /\ pool_last.op = "Commit"
    /\ ~pool_last.grown
    /\ Len(allocations) = 2
    /\ pool_last.set[1] = 1
    /\ Cardinality(pool_in_use) >= 3

\* ------------------------------------------------------------------------
\* VKTextureCache: lifetime of surfaces and views
\* ------------------------------------------------------------------------
\* The surfaces an operation erased from registered_surfaces (erasing the
\* unique_ptr destroys the surface's image, staging buffer and views).
Destroyed == RegisteredIds(registered_surfaces) \ RegisteredIds(registered_surfaces')

\* C16: whenever an operation destroys a surface that a submitted command
\* buffer still reads, the operation has waited on that command buffer's fence
\* first. The cache has no such wait: the step that erases an in-flight surface
\* violates this.
C16_EvictionWaitsOnTheFenceOfOutstandingReads ==
    [][\A id \in Destroyed \cap tex_in_flight :
          \E k \in 1 .. Len(tex_trace') : tex_trace'[k] = <<"wait", id>>]_vars

\* C17: every view GetView has returned and that still exists belongs to a
\* surface in registered_surfaces, and the view a GetView call returns is the
\* view of a surface registered when the call returns; the views of the
\* surfaces an operation erases cease to exist in the same step.
C17_ViewsExistOnlyWhileTheirSurfaceIsRegistered ==
    [][/\ tex_views' \subseteq RegisteredIds(registered_surfaces')
       /\ (tex_last'.op = "GetView" /\ ~tex_aborted') =>
            tex_last'.view \in RegisteredIds(registered_surfaces')
       /\ Destroyed \cap tex_views' = {}]_vars

\* A surface whose view was handed out has been evicted by a later GetView,
\* while another handed-out view is still registered.
C17_Witness ==
    /\ tex_last.op = "GetView"
    /\ ~tex_aborted
    /\ \E k \in 1 .. Len(tex_trace) : tex_trace[k][1] = "erase"
    /\ Cardinality(tex_views) >= 2

\* C18: a surface whose computed size exceeds the rest of its guest memory
\* region is created and registered with its size clamped to the region's end,
\* and no read of guest memory made for a surface goes past the region's end.
\* The load reads the unclamped image, so a preserving GetView for a clamped
\* surface violates this.
C18_ClampedSurfaceNeverTouchesBytesPastTheRegionEnd ==
    [][(tex_last'.op = "GetView" /\ ~tex_aborted') =>
          /\ \A s \in {registered_surfaces'[i] : i \in 1 .. Len(registered_surfaces')} :
                /\ s.addr + s.cached_size_in_bytes <= GuestRegionEnd
                /\ s.cached_size_in_bytes =
                      IF s.addr + s.width * s.height > GuestRegionEnd
                      THEN GuestRegionEnd - s.addr
                      ELSE s.width * s.height
          /\ tex_last'.view \in RegisteredIds(registered_surfaces')
          /\ \A k \in 1 .. Len(tex_trace') :
                tex_trace'[k][1] = "read" =>
                    tex_trace'[k][3] + tex_trace'[k][4] <= GuestRegionEnd]_vars

\* Number of events of one kind in a trace.
CountEvents(trace, kind) == Cardinality({k \in 1 .. Len(trace) : trace[k][1] = kind})

\* C19: a GetView for a region that shares no byte with a registered surface
\* creates exactly one surface of the requested shape, reads guest memory for
\* it exactly when preserve_contents is set, leaves it unmodified, appends it
\* and nothing else to registered_surfaces, and returns its view.
C19_NoOverlapCreatesLoadsRegistersOneSurface ==
    [][(/\ tex_last'.op = "GetView"
        /\ \A s \in Registered :
              SurfaceBytes(s) \cap RequestBytes(tex_last'.params.addr,
                                               GetSizeInBytes(tex_last'.params)) = {})
       => /\ ~tex_aborted'
          /\ CountEvents(tex_trace', "create") = 1
          /\ CountEvents(tex_trace', "load") = (IF tex_last'.preserve THEN 1 ELSE 0)
          /\ CountEvents(tex_trace', "read") = (IF tex_last'.preserve THEN 1 ELSE 0)
          /\ CountEvents(tex_trace', "erase") = 0
          /\ Len(registered_surfaces') = Len(registered_surfaces) + 1
          /\ SubSeq(registered_surfaces', 1, Len(registered_surfaces)) = registered_surfaces
          /\ LET new == registered_surfaces'[Len(registered_surfaces')]
             IN /\ new.id \notin RegisteredIds(registered_surfaces)
                /\ new.addr = tex_last'.params.addr
                /\ new.width = tex_last'.params.width
                /\ new.height = tex_last'.params.height
                /\ ~new.modified
                /\ tex_last'.view = new.id]_vars

\* A preserving GetView has created a surface next to an already registered
\* one, without evicting anything.
C19_Witness ==
    /\ tex_last.op = "GetView"
    /\ tex_last.preserve
    /\ CountEvents(tex_trace, "create") = 1
    /\ CountEvents(tex_trace, "flush") = 0
    /\ CountEvents(tex_trace, "read") = 1
    /\ Len(registered_surfaces) >= 2

\* ------------------------------------------------------------------------
\* VKPipelineCache: stage slots
\* ------------------------------------------------------------------------
\* C20: in a GetPipeline call with VertexA enabled, VertexB is not iterated;
\* slot 0 is assigned once, by program 0, with the shader at VertexA's
\* address; every other enabled program k >= 2 is assigned to slot k - 1 with
\* the shader at its address; no slot is assigned twice.
C20_VertexAFusesVertexBIntoSlotZero ==
    [][(pipe_last'.op = "GetPipeline" /\ IsShaderConfigEnabled(pipe_last'.regs, VertexA)) =>
          LET regs == pipe_last'.regs
              w == pipe_last'.writes
              out == pipe_last'.pipeline.shaders
          IN /\ \A i \in 1 .. Len(w) : w[i][1] # VertexB
             /\ Cardinality({i \in 1 .. Len(w) : w[i][2] = 0}) = 1
             /\ w[1] = <<VertexA, 0>>
             /\ out[0].addr = regs.code[VertexA]
             /\ \A k \in 2 .. (MaxShaderProgram - 1) :
                   IF regs.enabled[k]
                   THEN /\ \E i \in 1 .. Len(w) : w[i] = <<k, k - 1>>
                        /\ out[k - 1].addr = regs.code[k]
                   ELSE /\ \A i \in 1 .. Len(w) : w[i][1] # k
                        /\ out[k - 1] = NoShader
             /\ \A i, j \in 1 .. Len(w) : w[i][2] = w[j][2] => i = j]_vars

\* A call with VertexA, VertexB and the fragment program enabled has assigned
\* the slots 0 and 4.
C20_Witness ==
    /\ pipe_last.op = "GetPipeline"
    /\ pipe_last.regs.enabled[VertexA]
    /\ pipe_last.regs.enabled[VertexB]
    /\ pipe_last.regs.enabled[Fragment]
    /\ pipe_last.writes = << <<VertexA, 0>>, <<Fragment, 4>> >>

\* ------------------------------------------------------------------------
\* Properties of VKBlitScreen
\* ------------------------------------------------------------------------
\* C21: a Draw that tears the raw images down has waited on every fence a
\* watch of a raw image held, and at the moment the raw images and the staging
\* buffer are destroyed no unfinished submission uses them.
C21_TeardownWaitsOnEveryWatchBeforeDestroying ==
    [][(blit_last'.op = "Draw" /\ blit_last'.released) =>
          /\ \A i \in 0 .. (Len(raw_images) - 1) :
                blit_watches[i] # 0 => blit_watches[i] \in blit_last'.waited
          /\ blit_last'.destroyed = {raw_images[k] : k \in 1 .. Len(raw_images)}
          /\ \A sub \in blit_last'.at_destroy : sub.gen \notin blit_last'.destroyed
          /\ \A sub \in blit_in_flight :
                sub.gen \in blit_last'.destroyed => sub \notin blit_in_flight']_vars

\* A teardown happened while two submissions using the raw images were still
\* unfinished; both fences were waited on.
C21_Witness ==
    /\ blit_last.op = "Draw"
    /\ blit_last.released
    /\ blit_last.destroyed # {}
    /\ Cardinality(blit_last.waited) = 2
    /\ Cardinality(blit_in_flight) = 1

\* ------------------------------------------------------------------------
\* Properties of SpirvModule::Decompile and ControlFlowAnalyzer
\* ------------------------------------------------------------------------
\* The successors of an offset on the code paths of a program: EXIT ends the
\* path unless its predicate is not met, BRA goes on or jumps.
Successors(code, offset) ==
    IF offset >= PROGRAM_END
    THEN {}
    ELSE LET instr == code[offset + 1]
         IN IF instr.op = "EXIT"
            THEN IF instr.pred THEN {offset + 1} ELSE {}
            ELSE IF instr.op = "BRA"
                 THEN {offset + 1, instr.target}
                 ELSE {offset + 1}

\* The offsets some code path from the offsets in seen reaches without EXIT.
RECURSIVE Reach(_, _)
Reach(code, seen) ==
    LET more == seen \cup UNION {Successors(code, o) : o \in seen}
    IN IF more = seen THEN seen ELSE Reach(code, more)

\* Some code path from begin runs off the end of the program without EXIT.
FallsOffTheEnd(code, begin) == PROGRAM_END \in Reach(code, {begin})

\* C22: a Decompile whose analysis does not classify the main program as
\* AlwaysEnd returns the empty Id and reports a failure; no exception leaves
\* Decompile.
C22_AnalysisFailureReturnsEmptyId ==
    [][(cfa_last'.op = "Decompile") =>
          /\ cfa_last'.escaped = "none"
          /\ (cfa_last'.exit_method # "AlwaysEnd") =>
                (cfa_last'.id = 0 /\ cfa_last'.failed)
          /\ (cfa_last'.exit_method = "AlwaysEnd") =>
                (cfa_last'.id # 0 /\ ~cfa_last'.failed)]_vars

\* A program with a predicated EXIT and a branch was rejected.
C22_Witness ==
    /\ cfa_last.op = "Decompile"
    /\ cfa_last.failed
    /\ cfa_last.id = 0
    /\ cfa_last.exit_method = "Conditional"
    /\ \E k \in 1 .. PROGRAM_END : program_code[k].op = "BRA"

C24_NoUpdateIsLostOnTheWaitingThread ==
    ~(emu_pc = "blocked" /\ gui_pc.op = "idle" /\ WaitPredicate)

\* ------------------------------------------------------------------------
\* Properties of CachedSurface::LoadVKBuffer / FlushVKBuffer
\* ------------------------------------------------------------------------
\* C25: de-tiling is the inverse of tiling: loading the surface right after
\* flushing the staging contents X yields X again.
C25_LoadAfterFlushYieldsTheFlushedContents ==
    [][swz_last.op = "flush" /\ swz_last'.op = "load"
          => swz_vk_buffer' = swz_last.X]_vars

\* ------------------------------------------------------------------------
\* Properties of VKBufferCache::UploadMemory below the caching size
\* ------------------------------------------------------------------------
\* C26: an UploadMemory of fewer than 2048 bytes neither consults nor registers
\* a cache entry, whatever its cache argument: the content goes to a fresh
\* aligned offset and the cursor advances by size.
C26_SmallUploadsBypassTheDedupCache ==
    [][\A gpu_addr \in GuestBufAddrs, size \in UploadSizes, alignment \in Alignments,
          cache_arg \in BOOLEAN :
          (size < 2048 /\ BufUploadMemory(gpu_addr, size, alignment, cache_arg)) =>
              /\ buffer_entries' = buffer_entries
              /\ ~buf_last'.hit
              /\ buf_last'.offset = AlignUp(buffer_offset, alignment)
              /\ buffer_offset' = buf_last'.offset + size
              /\ buffer_ptr' = buf_last'.ptr + size]_vars

\* A small upload from an address whose registered entry would have answered
\* it (large enough, same alignment) was uploaded afresh.
C26_Witness ==
    /\ buf_last.op = "UploadMemory"
    /\ buf_last.size < 2048
    /\ ~buf_last.hit
    /\ \E gpu_addr \in GuestBufAddrs :
          /\ buffer_entries[gpu_addr] # NoEntry
          /\ IsCacheHit(buffer_entries[gpu_addr], buf_last.size, buf_last.alignment)
          /\ buf_last.offset >= buffer_entries[gpu_addr].offset + buffer_entries[gpu_addr].size

\* ------------------------------------------------------------------------
\* Properties of CachedShader::CommitDescriptorSet
\* ------------------------------------------------------------------------
UsesNoDescriptors(entries) ==
    entries.const_buffers = 0 /\ entries.attributes = 0 /\ entries.samplers = 0

\* C27: CommitDescriptorSet returns the null set exactly when the shader
\* declares no const buffer, no attribute and no sampler (no pool was created);
\* otherwise the set is one of the shader's pool, free until now, and watched
\* by the given fence from now on.
C27_NullSetExactlyWhenShaderUsesNoDescriptors ==
    [][\A fence \in PoolFences : DescCommitDescriptorSet(fence) =>
          /\ (pool_last'.set = NullSet) <=> UsesNoDescriptors(shader_entries)
          /\ descriptor_pool.created <=> ~UsesNoDescriptors(shader_entries)
          /\ IF UsesNoDescriptors(shader_entries)
             THEN allocations' = <<>> /\ watches' = <<>>
             ELSE /\ pool_last'.set \in AllSets(allocations')
                  /\ pool_last'.set \notin SetsInUse
                  /\ [set |-> pool_last'.set, fence |-> fence] \in pool_in_use'
                  /\ \E i \in 1 .. Len(watches') :
                        /\ watches'[i] = fence
                        /\ Commit(allocations', i - 1) = pool_last'.set
                        /\ (i <= Len(watches) => watches[i] = 0)]_vars

\* A shader that declares nothing was asked for a set and got the null set.
C27_Witness ==
    /\ pool_last.op = "CommitDescriptorSet"
    /\ UsesNoDescriptors(shader_entries)
    /\ ~descriptor_pool.created
    /\ pool_last.set = NullSet

\* ------------------------------------------------------------------------
\* Properties of VKTextureCache::Unregister
\* ------------------------------------------------------------------------
\* The surfaces an operation passed to Unregister (each call opens with the -1
\* page notification).
UnregisterCalls(trace) ==
    {trace[k][2] : k \in {j \in 1 .. Len(trace) : trace[j][1] = "pages" /\ trace[j][3] = -1}}

\* C28: in a GetView every surface passed to Unregister is registered, the
\* assertion inside Unregister holds, and exactly the surfaces passed to
\* Unregister leave registered_surfaces.
C28_UnregisterFindsTheSurfaceAndItsAssertionHolds ==
    [][(tex_last'.op = "GetView") =>
          /\ UnregisterCalls(tex_trace') \subseteq RegisteredIds(registered_surfaces)
          /\ CountEvents(tex_trace', "assert") = 0
          /\ ~tex_aborted'
          /\ RegisteredIds(registered_surfaces) \cap RegisteredIds(registered_surfaces')
                = RegisteredIds(registered_surfaces) \ UnregisterCalls(tex_trace')]_vars

\* ------------------------------------------------------------------------
\* Properties of the page accounting of VKTextureCache
\* ------------------------------------------------------------------------
\* The net UpdatePagesCachedCount delta an operation has sent over the range of
\* surface id.
PagesDelta(trace, id) ==
    Cardinality({k \in 1 .. Len(trace) : trace[k] = <<"pages", id, 1>>})
        - Cardinality({k \in 1 .. Len(trace) : trace[k] = <<"pages", id, -1>>})

\* 1 when the surface is registered, 0 otherwise.
Covers(regs, id) == IF id \in RegisteredIds(regs) THEN 1 ELSE 0

\* C29: the page notifications stay balanced: in every operation the net delta
\* sent over a surface's range is +1 when the surface enters
\* registered_surfaces, -1 when it leaves, and 0 otherwise, so the tracked
\* count of a page is the number of registered surfaces covering it.
C29_PageNotificationsStayBalanced ==
    [][~tex_aborted' =>
          \A id \in 1 .. MaxSurfaces :
              PagesDelta(tex_trace', id)
                = Covers(registered_surfaces', id) - Covers(registered_surfaces, id)]_vars

\* ------------------------------------------------------------------------
\* Properties of the fused vertex shader under guest writes
\* ------------------------------------------------------------------------
\* The addresses at which a fused shader compiled from VertexB code at addr is
\* registered.
FusedFrom(sc, addr) ==
    {a \in ShaderAddrs : /\ sc[a] # NoShader
                         /\ sc[a].program_type = VertexA
                         /\ sc[a].program_b = addr}

\* C30: a guest write to the address of the VertexB code a cached fused
\* shader was compiled from evicts that shader and every pipeline cache entry
\* built from it.
C30_WriteToVertexBCodeEvictsTheFusedShader ==
    [][\A addr \in ShaderAddrs :
          (/\ pipe_last'.op \in {"ObjectInvalidated", "InvalidateRegion"}
           /\ pipe_last'.addr = addr
           /\ pipe_last' # pipe_last)
          => \A a \in FusedFrom(shader_cache, addr) :
                /\ shader_cache'[a] = NoShader
                /\ \A e \in cache' : e.key.shaders[VertexA] # a]_vars

\* ------------------------------------------------------------------------
\* Properties of the shader lookup of GetPipeline
\* ------------------------------------------------------------------------
\* C31: the shader GetPipeline places in pipeline.shaders[stage] for an
\* enabled program was compiled for that program type.
C31_StageShaderWasCompiledForItsProgramType ==
    [][(pipe_last'.op = "GetPipeline") =>
          \A i \in 1 .. Len(pipe_last'.writes) :
              LET index == pipe_last'.writes[i][1]
                  stage == pipe_last'.writes[i][2]
              IN pipe_last'.pipeline.shaders[stage].program_type = index]_vars

\* C32: every non-zero shader address in the key of a pipeline cache entry is
\* the address of a shader registered in the shader cache.
C32_EveryKeyAddressIsARegisteredShader ==
    \A e \in cache : \A p \in Programs :
        e.key.shaders[p] # 0 =>
            /\ TryGet(shader_cache, e.key.shaders[p]) # NoShader
            /\ TryGet(shader_cache, e.key.shaders[p]).addr = e.key.shaders[p]

\* An invalidation erased one entry and its shader; the entry left was built
\* with VertexA enabled and its shader is still registered.
C32_Witness ==
    /\ pipe_last.op = "ObjectInvalidated"
    /\ pipe_last.removed = 1
    /\ TryGet(shader_cache, pipe_last.addr) = NoShader
    /\ Cardinality(cache) = 1
    /\ \A e \in cache : e.key.shaders[VertexA] # 0

\* ------------------------------------------------------------------------
\* Properties of the registered buffer entries
\* ------------------------------------------------------------------------
\* The byte range of a registered entry.
EntryRange(entry) == <<entry.offset, entry.offset + entry.size>>

\* C33: every registered entry was uploaded after the most recent
\* invalidation, and no upload writes into the range of an entry that stays
\* registered: an upload either goes to a range disjoint from every registered
\* entry or is the upload that registers the entry.
C33_RegisteredEntriesAreNeverOverwritten ==
    [][/\ \A a \in RegisteredAddrs(buffer_entries') : a \notin buf_stale'
       /\ (buf_last'.op \in UploadOps /\ ~buf_last'.hit) =>
             \A a \in RegisteredAddrs(buffer_entries') :
                 \/ /\ buf_last'.op = "UploadMemory"
                    /\ buffer_entries'[a] # buffer_entries[a]
                    /\ EntryRange(buffer_entries'[a])
                          = <<buf_last'.offset, buf_last'.offset + buf_last'.size>>
                 \/ /\ buffer_entries'[a] = buffer_entries[a]
                    /\ ~Overlaps(EntryRange(buffer_entries'[a]),
                                 <<buf_last'.offset, buf_last'.offset + buf_last'.size>>)
       /\ (buf_last'.op = "UploadMemory" /\ buf_last'.hit) =>
             \E a \in RegisteredAddrs(buffer_entries') :
                 /\ buffer_entries'[a].offset = buf_last'.offset
                 /\ buffer_entries'[a].offset + buffer_entries'[a].size <= buffer_offset']_vars

\* An entry registered in an earlier reservation is still registered while a
\* host upload of the current reservation went to a range above it.
C33_Witness ==
    /\ buf_last.op = "UploadHostMemory"
    /\ \E a \in RegisteredAddrs(buffer_entries) :
          /\ buffer_entries[a].offset < buffer_offset_base
          /\ buf_last.offset >= buffer_entries[a].offset + buffer_entries[a].size

\* ------------------------------------------------------------------------
\* Properties of the reserved span
\* ------------------------------------------------------------------------
\* C34: the bytes consumed since Reserve(max_size), padding included
\* (buffer_offset - buffer_offset_base), never exceed max_size. Stated for the
\* upload that directly follows the Reserve, whose max_size is still on
\* record: that upload already may not leave the reserved span.
C34_UploadsStayInsideTheReservedSpan ==
    [][(/\ buf_last.op = "Reserve"
        /\ buf_last'.op \in UploadOps
        /\ ~buf_last'.hit)
       => /\ buffer_offset' - buffer_offset_base' <= buf_last.size
          /\ buf_last'.offset + buf_last'.size <= buffer_offset_base' + buf_last.size]_vars

\* ------------------------------------------------------------------------
\* Properties of ControlFlowAnalyzer::Scan
\* ------------------------------------------------------------------------
\* C35: Scan reads program_code only at indices in [0, PROGRAM_END), also for
\* programs whose BRA, SSY or PBK targets lie outside the program.
C35_ScanReadsProgramCodeInRangeOnly ==
    [][(cfa_last'.op \in {"Decompile", "Crashed"}) => cfa_last'.oob = {}]_vars

\* The ranges Scan can be called with when the program is analysed from
\* main_offset: (begin, PROGRAM_END) for an offset begin of the program or its end.
ScanRanges == {<<begin, PROGRAM_END>> : begin \in 0 .. PROGRAM_END}

\* C36: the analysis of every program ends, loops included: every Scan call
\* that enters its loop is the first call for its (begin, end) range, so it
\* enters the loop at most once per range and at most PROGRAM_END + 1 times in
\* all; a call for a range that is being analysed or was analysed is answered
\* from exit_method_map.
C36_EachRangeIsScannedAtMostOnce ==
    [][(cfa_last'.op = "Decompile") =>
          /\ cfa_last'.ranges \subseteq ScanRanges
          /\ cfa_last'.calls = Cardinality(cfa_last'.ranges)
          /\ cfa_last'.calls <= PROGRAM_END + 1
          /\ <<main_offset, PROGRAM_END>> \in cfa_last'.ranges]_vars

\* A program whose first instruction branches back to itself and whose last
\* instruction branches back to the start was analysed to the end.
C36_Witness ==
    /\ cfa_last.op = "Decompile"
    /\ main_offset = 0
    /\ program_code[1] = [op |-> "BRA", target |-> 0]
    /\ program_code[PROGRAM_END] = [op |-> "BRA", target |-> 0]
    /\ cfa_last.calls = PROGRAM_END + 1

\* ------------------------------------------------------------------------
\* Properties of the staging buffer layout of VKBlitScreen
\* ------------------------------------------------------------------------
\* The staging range of image i of a framebuffer configuration.
RawImageRange(framebuffer, i) ==
    <<GetRawImageOffset(framebuffer, i),
      GetRawImageOffset(framebuffer, i) + SizeInBytes(framebuffer)>>

\* C37: the staging range of every image index below the image count starts at
\* or after the BufferData header, ends at or before CalculateBufferSize, and
\* shares no byte with the range of another image index.
C37_RawImageRangesLieInsideTheBufferAndAreDisjoint ==
    [][(stage_last'.op = "Stage") =>
          LET framebuffer == stage_last'.framebuffer
              range == <<stage_last'.image_offset,
                         stage_last'.image_offset + stage_last'.size_in_bytes>>
          IN /\ range[1] >= SizeofBufferData
             /\ range[2] <= stage_last'.buffer_size
             /\ ~Overlaps(range, <<0, SizeofBufferData>>)
             /\ \A j \in (0 .. (ImageCount - 1)) \ {stage_last'.image_index} :
                   ~Overlaps(range, RawImageRange(framebuffer, j))]_vars

\* The last image of a configuration with a non-empty image was staged: its
\* range ends where the buffer ends.
C37_Witness ==
    /\ stage_last.op = "Stage"
    /\ stage_last.image_index = ImageCount - 1
    /\ stage_last.size_in_bytes > 0
    /\ stage_last.image_offset + stage_last.size_in_bytes = stage_last.buffer_size

\* ------------------------------------------------------------------------
\* Properties of ControlFlowAnalyzer::ParallelExit
\* ------------------------------------------------------------------------
\* C38: ParallelExit gives the same result with its arguments exchanged, gives
\* a for (a, a), gives the other argument when one is Undetermined, and gives
\* Conditional for two different arguments neither of which is Undetermined.
C38_ParallelExitIsCommutativeIdempotentWithIdentity ==
    [][(pexit_last'.op = "ParallelExit") =>
          LET a == pexit_last'.a
              b == pexit_last'.b
              result == pexit_last'.result
          IN /\ result = pexit_last'.exchanged
             /\ pexit_last'.same = b
             /\ (a = b) => result = a
             /\ (a = "Undetermined") => result = b
             /\ (b = "Undetermined") => result = a
             /\ (a # b /\ a # "Undetermined" /\ b # "Undetermined") =>
                   result = "Conditional"
             /\ result \in ExitMethods]_vars

\* A branch that always returns was merged with branches that always end, and
\* an undetermined branch was then merged without changing the result.
C38_Witness ==
    /\ pexit_last.op = "ParallelExit"
    /\ pexit_last.a = "Conditional"
    /\ pexit_last.b = "Undetermined"
    /\ pexit_last.result = "Conditional"
    /\ \E i, j \in 1 .. Len(pexit_branches) :
          pexit_branches[i] = "AlwaysEnd" /\ pexit_branches[j] = "AlwaysReturn"

====
